---- MODULE Spec2Model ----
(***************************************************************************)
(* Lead ranking orchestrator and genetic prompt optimizer of the           *)
(* throxy-project API package (packages/api/src/services).                 *)
(*                                                                         *)
(* Every asynchronous function is modelled as a process whose steps are    *)
(* the code segments between two awaits: the store statement or LLM call   *)
(* that an await waits for takes effect atomically in one step, together   *)
(* with the synchronous code that follows it up to the next await.  A      *)
(* value an awaited call returned that only later code of the function     *)
(* reads is drawn by the step that reads it.                               *)
(***************************************************************************)
EXTENDS Integers, Sequences, FiniteSets, TLC

(***************************************************************************)
(* Bounds of the model                                                     *)
(***************************************************************************)
MaxLeads == 2
MaxRank == 2
MaxItems == 2
MaxGenerations == 2
MaxStored == 2
MaxRegistrations == 3
MaxLeadsCalls == 1

(***************************************************************************)
(* Values                                                                  *)
(***************************************************************************)
\* A rank is an integer; null and NaN are two values outside the numbers the
\* model lets a response carry.
NULL == -1000
NaN == -2000
\* a response item without a leadId, and an id that was never requested
NoLeadId == 0
UnknownLeadId == 99
\* the leadId that marks an element of the rankings array that is null
NullElement == -1
NullItem == [leadId |-> NullElement, rank |-> NULL, reasoning |-> "ai"]
NoCompany == "null"
NoError == "none"
NoSession == "undefined"
\* no function is being called
NoCall == [fn |-> "none"]
NoOverride == "undefined"

RankRuns == {1, 2}
OptRuns == {1}
Providers == {"openai", "anthropic"}
Companies == {"A", "B"}

DEFAULT_PROMPT == "DEFAULT_PROMPT"

\* the fitness values, in hundredths, an evaluation is taken to return when
\* every entry of the LLM's responses carries a rank in range or null
FitnessValues == {0, 50, 100}

\* optimizer.ts startInputSchema: the smallest population the router accepts
PopulationSize == 3
\* prompt-optimizer.ts DEFAULT_OPTIONS.eliteCount and TOURNAMENT_SIZE
EliteCount == 2
TOURNAMENT_SIZE == 3

DEFAULT_PROGRESS ==
  [total |-> 0, completed |-> 0, currentCompany |-> NoCompany, status |-> "idle", error |-> NoError]

VARIABLES
  leads,        \* table leads: sequence of [id, accountName] in storage order
  rankings,     \* table rankings: sequence of rows in insertion order
  prompts,      \* table prompts: set of rows, version is unique
  configured,   \* providers whose API key is set in the environment
  now,          \* Date.now()
  progressMap,  \* ranking.ts progressMap: batchId -> RankingProgress, for the ids set so far
  proc,         \* the ranking runs and prompt store calls in flight, by slot
  optimizationProgressMap,  \* prompt-optimizer.ts: runId -> OptimizationProgress
  opt,          \* the optimization runs, by slot
  sessionMap,   \* session-store.ts sessionMap: sessionId -> SessionState
  call,         \* the call of a pure or synchronous function under test
  evalOutcomes  \* the fitness values evaluatePrompt returns with the LLM at hand

dbVars == <<leads, rankings, prompts>>
envVars == <<configured, now, sessionMap, call, evalOutcomes>>
runEnv == <<configured, now, call, evalOutcomes>>
optVars == <<optimizationProgressMap, opt>>
rankVars == <<progressMap, proc>>
vars == <<leads, rankings, prompts, configured, now, progressMap, proc,
          optimizationProgressMap, opt, sessionMap, call, evalOutcomes>>

(***************************************************************************)
(* Pure functions of ranking.ts                                            *)
(***************************************************************************)
RECURSIVE SeqToSet(_)
SeqToSet(s) == IF s = <<>> THEN {} ELSE {Head(s)} \cup SeqToSet(Tail(s))

RECURSIVE SelectSeqBy(_, _)
\* the leads of one company, in input order
SelectSeqBy(s, name) ==
  IF s = <<>> THEN <<>>
  ELSE IF Head(s).accountName = name
       THEN <<Head(s)>> \o SelectSeqBy(Tail(s), name)
       ELSE SelectSeqBy(Tail(s), name)

RECURSIVE CompanyOrder(_, _)
\* company names in order of first appearance (Map insertion order)
CompanyOrder(s, seen) ==
  IF s = <<>> THEN <<>>
  ELSE IF Head(s).accountName \in seen
       THEN CompanyOrder(Tail(s), seen)
       ELSE <<Head(s).accountName>> \o CompanyOrder(Tail(s), seen \cup {Head(s).accountName})

\* Array.from(groupLeadsByCompany(allLeads).entries())
groupLeadsByCompany(allLeads) ==
  LET names == CompanyOrder(allLeads, {})
  IN [i \in 1..Len(names) |-> [name |-> names[i], leads |-> SelectSeqBy(allLeads, names[i])]]

leadIdsOf(companyLeads) == [i \in 1..Len(companyLeads) |-> companyLeads[i].id]

createFailedResult(leadId, reason) ==
  [leadId |-> leadId, rank |-> NULL, reasoning |-> reason]

\* the result of parseRankingItem for an item that has a leadId; a rank that
\* is null stays null, Number() keeps a number and turns a missing or
\* non-numeric rank (NaN here) into NaN
parseRankingItem(item) ==
  [leadId |-> item.leadId,
   rank |-> IF item.rank = NULL THEN NULL ELSE item.rank,
   reasoning |-> item.reasoning]

\* an id that is never in the set of processed ids
alreadyProcessed_never(result, processedIds) == FALSE

\* processedIds.has(result.leadId)
alreadyProcessed(result, processedIds) == result.leadId \in processedIds

RECURSIVE parseItems(_, _, _)
\* the loop over the response's rankings: first occurrence per requested id
parseItems(items, leadIds, processedIds) ==
  IF items = <<>> THEN <<>>
  ELSE LET result == parseRankingItem(Head(items))
       IN IF Head(items).leadId = NoLeadId \/ result.leadId \notin SeqToSet(leadIds)
             \/ alreadyProcessed(result, processedIds)
          THEN parseItems(Tail(items), leadIds, processedIds)
          ELSE <<result>> \o parseItems(Tail(items), leadIds, processedIds \cup {result.leadId})

RECURSIVE missingResults(_, _)
missingResults(leadIds, processedIds) ==
  IF leadIds = <<>> THEN <<>>
  ELSE IF Head(leadIds) \in processedIds
       THEN missingResults(Tail(leadIds), processedIds)
       ELSE <<createFailedResult(Head(leadIds), "Failed to parse ranking from AI response")>>
            \o missingResults(Tail(leadIds), processedIds)

\* A response text is a sequence of tokens: "{" and "}" are single braces,
\* "x" is text without braces, and "R" is the member "rankings":[...] whose
\* elements are response.items; each element that is an object brings its
\* own pair of braces, a null element brings none.
ObjectItems(response) ==
  {i \in 1..Len(response.items) : response.items[i] # NullItem}

OpensBrace(response, i) ==
  \/ response.text[i] = "{"
  \/ response.text[i] = "R" /\ ObjectItems(response) # {}

ClosesBrace(response, i) ==
  \/ response.text[i] = "}"
  \/ response.text[i] = "R" /\ ObjectItems(response) # {}

\* response.match(/\{[\s\S]*\}/): the positions of the first "{" and of the
\* last "}" after it, <<0, 0>> without a match
jsonMatch(response) ==
  LET opens == {i \in 1..Len(response.text) : OpensBrace(response, i)}
      closes == {i \in 1..Len(response.text) : ClosesBrace(response, i)}
      first == IF opens = {} THEN 0 ELSE CHOOSE i \in opens : \A j \in opens : i <= j
      last == IF closes = {} THEN 0 ELSE CHOOSE i \in closes : \A j \in closes : j <= i
  IN IF first = 0 \/ last = 0 \/ first > last THEN <<0, 0>> ELSE <<first, last>>

\* a parse that accepts every matched text
JSONparse_lenient(response, first, last) ==
  IF "R" \in {response.text[i] : i \in first..last} /\ first < last
  THEN "rankings" ELSE "object"

\* JSON.parse(jsonMatch[0]): "rankings" for an object that has the rankings
\* array, "object" for any other object, "throws" for a text that is no
\* JSON.  A match inside "R" runs from the brace of the first object
\* element to the brace of the last one.
JSONparse(response, first, last) ==
  LET span == SubSeq(response.text, first, last)
  IN IF span = <<"{", "R", "}">> THEN "rankings"
     ELSE IF span = <<"{", "}">> THEN "object"
     ELSE IF span = <<"R">> /\ Cardinality(ObjectItems(response)) = 1 THEN "object"
     ELSE "throws"

\* extractJson: "null" without a match or when JSON.parse throws
extractJson(response) ==
  LET match == jsonMatch(response)
  IN IF match = <<0, 0>> THEN "null"
     ELSE LET parsed == JSONparse(response, match[1], match[2])
          IN IF parsed = "throws" THEN "null" ELSE parsed

\* parseRankingItem reads item.leadId of an element that is null: TypeError
parseThrows(response) ==
  /\ extractJson(response) = "rankings"
  /\ \E i \in 1..Len(response.items) : response.items[i] = NullItem

\* what parseRankingResponse returns when it does not throw
parseRankingResponse(response, leadIds) ==
  LET parsed == extractJson(response)
  IN IF parsed = "null"
     THEN [i \in 1..Len(leadIds) |-> createFailedResult(leadIds[i], "No JSON found in response")]
     ELSE IF parsed = "object"
     THEN [i \in 1..Len(leadIds) |-> createFailedResult(leadIds[i], "Invalid response format")]
     ELSE LET matched == parseItems(response.items, leadIds, {})
              processedIds == {matched[i].leadId : i \in 1..Len(matched)}
          IN matched \o missingResults(leadIds, processedIds)

\* relevanceScore is kept in tenths: (11 - rank) / 10.  "by" stands for the
\* row's generated id: the slot of the run that inserted the row, 0 for a
\* row that was in the table before any run of the model started.
toRankingEntry(result, promptVersion, by) ==
  [leadId |-> result.leadId,
   rank |-> result.rank,
   relevanceScore |-> IF result.rank # NULL
                      THEN (IF result.rank = NaN THEN NaN ELSE 11 - result.rank)
                      ELSE 0,
   reasoning |-> result.reasoning,
   promptVersion |-> promptVersion,
   by |-> by]

\* a selection that ignores the session prompt
selectPromptForRanking_active(activePrompt, sessionPrompt) == activePrompt

\* content: sessionPrompt ?? activePrompt.content
selectPromptForRanking(activePrompt, sessionPrompt) ==
  [content |-> IF sessionPrompt = NoOverride THEN activePrompt.content ELSE sessionPrompt,
   version |-> activePrompt.version]

getRankingProgress(batchId) ==
  IF batchId \in DOMAIN progressMap THEN progressMap[batchId] ELSE DEFAULT_PROGRESS

\* the map after updateProgress(batchId, update); update is a record with a
\* subset of the progress fields
updateProgress(batchId, update) ==
  LET current == getRankingProgress(batchId)
      updated == [f \in DOMAIN current |->
                    IF f \in DOMAIN update THEN update[f] ELSE current[f]]
  IN [b \in DOMAIN progressMap \cup {batchId} |->
        IF b = batchId THEN updated ELSE progressMap[b]]

(***************************************************************************)
(* Inputs                                                                  *)
(***************************************************************************)
SeqsUpTo(S, n) == UNION {[1..k -> S] : k \in 0..n}

\* lead tables of up to MaxLeads rows; the ids are distinct (primary key)
LeadTables ==
  UNION {{[i \in 1..n |-> [id |-> i, accountName |-> c[i],
                           firstName |-> "Ava", lastName |-> "Stone"]] :
            c \in [1..n -> Companies]}
         : n \in 0..MaxLeads}

\* what a chat response can decode to for one company's request
ItemRanks == (1..MaxRank) \cup {NULL}
ResponseItems(leadIds) ==
  [leadId : SeqToSet(leadIds) \cup {NoLeadId, UnknownLeadId}, rank : ItemRanks,
   reasoning : {"ai"}]
  \cup {NullItem}
\* the responses of a ranking run: a text without JSON, a text whose braces
\* hold no JSON, an object without rankings, and every rankings array
Responses(leadIds) ==
  {[text |-> t, items |-> <<>>] : t \in {<<"x">>, <<"{", "x", "}">>, <<"{", "}">>}}
  \cup {[text |-> <<"{", "R", "}">>, items |-> s] :
          s \in SeqsUpTo(ResponseItems(leadIds), MaxItems)}

\* rows left in rankings by an earlier, finished run (by = 0)
OldRankings(table) ==
  [i \in 1..Len(table) |->
     toRankingEntry([leadId |-> table[i].id, rank |-> 1, reasoning |-> "ai"], 1, 0)]

PromptRow(version, content, isActive, evalScore, generation, parentVersion) ==
  [version |-> version, content |-> content, isActive |-> isActive,
   evalScore |-> evalScore, generation |-> generation, parentVersion |-> parentVersion]

\* the row createDefaultPrompt inserts
DefaultPromptRow(version) == PromptRow(version, DEFAULT_PROMPT, TRUE, NULL, 0, NULL)

\* Prompt stores the program gets into: empty, or version 1 with the default
\* content (seeded, or created by ensureActivePrompt) followed by versions
\* up to MaxStored, each one either a default prompt created when no prompt
\* was active or the best candidate of an optimization run (a mutation of
\* its initial population, top fitness); activatePrompt calls have left any
\* of the rows active.
StoredRows(version) ==
  IF version = 1
  THEN {[DefaultPromptRow(1) EXCEPT !.isActive = a] : a \in BOOLEAN}
  ELSE {[DefaultPromptRow(version) EXCEPT !.isActive = a] : a \in BOOLEAN}
       \cup {PromptRow(version, "generated", a, 100, 0, NULL) : a \in BOOLEAN}

PromptStores ==
  UNION {{{f[v] : v \in 1..k} : f \in {g \in [1..k -> UNION {StoredRows(v) : v \in 1..k}] :
                                          \A v \in 1..k : g[v] \in StoredRows(v)}}
         : k \in 0..MaxStored}

(***************************************************************************)
(* Processes                                                               *)
(***************************************************************************)
IdleProc ==
  [pc |-> "idle", kind |-> "none", provider |-> "openai", batchId |-> 0,
   sessionId |-> NoSession, returned |-> FALSE,
   allLeads |-> <<>>, companies |-> <<>>, idx |-> 0,
   shouldCaptureChanges |-> FALSE, sessionPrompt |-> NoOverride,
   previousRanks |-> <<>>, rankingChanges |-> <<>>,
   systemPrompt |-> "", promptVersion |-> 0, completedLeads |-> 0,
   results |-> <<>>, nextVersion |-> 0, found |-> FALSE,
   activePrompt |-> [content |-> "", version |-> 0], thrown |-> NoError,
   logged |-> 0,      \* console.error calls of processCompany in this run
   callFailed |-> 0,  \* those of them after a failed LLM call or store operation
   saved |-> <<>>,    \* the rows this run has inserted into rankings
   version |-> 0,     \* the argument of activatePrompt
   before |-> {},     \* the prompt rows when getActivePromptWithVersion was called
   inserted |-> 0,    \* the version createDefaultPrompt inserted in this call
   storeFailed |-> FALSE,  \* a store operation of createDefaultPrompt failed
   rows |-> <<>>,     \* the rows a leadsRouter handler parsed from its CSV text
   calls |-> 0]       \* the leadsRouter calls made so far

NoCandidate == [content |-> "", version |-> 0, fitness |-> 0, generation |-> 0,
                parentVersion |-> NULL]

IdleOpt ==
  [pc |-> "idle", runId |-> 0, provider |-> "openai", generations |-> 0,
   populationSize |-> 0, basePrompt |-> [content |-> "", version |-> 0],
   population |-> <<>>, newPopulation |-> <<>>, nextVersion |-> 0, gen |-> 0,
   bestCandidate |-> NoCandidate, totalEvaluations |-> 0, extraEvaluations |-> 0,
   thrown |-> NoError,
   awaited |-> 0,       \* the awaits passed since the step at pc began
   op |-> "none",       \* the genetic operator generateOffspring drew
   seedFitness |-> 0]   \* the fitness the initial evaluation gave the base prompt


(***************************************************************************)
(* Store reads shared by ranking.ts and prompt-optimizer.ts                *)
(***************************************************************************)
MaxVersionOf(rows) ==
  IF rows = {} THEN 0
  ELSE CHOOSE v \in {r.version : r \in rows} : \A r \in rows : r.version <= v

ActiveRows == {r \in prompts : r.isActive}

\* where isActive order by version desc limit 1 (ActiveRows is not empty)
TopActiveRow == CHOOSE r \in ActiveRows : r.version = MaxVersionOf(ActiveRows)

\* a read that finds no version
fetchLatestPromptVersion_none == MaxVersionOf({})

\* fetchLatestPromptVersion
fetchLatestPromptVersion == MaxVersionOf(prompts)

(***************************************************************************)
(* Rank changes and the session store, as used by runRankingProcess        *)
(***************************************************************************)
\* the value of a Map lookup that finds no entry
Undefined == -3000

\* a === b for ranks
StrictEq(a, b) == a = b /\ a # NaN

\* a normalizeRank that keeps whatever it is given
normalizeRank_keep(rank) == rank

\* typeof rank === "number" ? rank : null
normalizeRank(rank) == IF rank \in {NULL, Undefined} THEN NULL ELSE rank

\* oldRanks.get(leadId)
MapGet(map, key) == IF key \in DOMAIN map THEN map[key] ELSE Undefined

\* new Map(companyLeads.map(lead => [lead.id, lead])): the last lead of an id
leadById(companyLeads, id) ==
  LET at == {i \in 1..Len(companyLeads) : companyLeads[i].id = id}
  IN companyLeads[CHOOSE i \in at : \A j \in at : j <= i]

\* the callback of results.flatMap for one result
changeOf(oldRanks, companyLeads, result) ==
  IF \A i \in 1..Len(companyLeads) : companyLeads[i].id # result.leadId THEN <<>>
  ELSE LET lead == leadById(companyLeads, result.leadId)
           previousRank == normalizeRank(MapGet(oldRanks, result.leadId))
           nextRank == normalizeRank(result.rank)
       IN IF StrictEq(previousRank, nextRank) THEN <<>>
          ELSE <<[leadId |-> result.leadId,
                  fullName |-> <<lead.firstName, " ", lead.lastName>>,
                  company |-> lead.accountName,
                  oldRank |-> previousRank,
                  newRank |-> nextRank]>>

RECURSIVE buildRankingChanges(_, _, _)
buildRankingChanges(oldRanks, companyLeads, results) ==
  IF results = <<>> THEN <<>>
  ELSE changeOf(oldRanks, companyLeads, Head(results))
       \o buildRankingChanges(oldRanks, companyLeads, Tail(results))

\* the session ids the routers accept (non-empty strings) and batch ids
SessionIds == {"session-a", "session-b"}
SessionBatchIds == {1, 2, 3}

\* !sessionId
NoSessionId(sessionId) == sessionId \in {NoSession, ""}

\* a set that keeps every added id
setAdd_push(ids, batchId) == Append(ids, batchId)

\* Set.add: the ids in insertion order, each once
setAdd(ids, batchId) ==
  IF batchId \in SeqToSet(ids) THEN ids ELSE Append(ids, batchId)

\* the map after getOrCreateSession(sessionId)
getOrCreateSession(map, sessionId) ==
  IF sessionId \in DOMAIN map THEN map
  ELSE (sessionId :> [aiBatchIds |-> <<>>, optimizedPrompt |-> NoOverride]) @@ map

\* the map after registerSessionAiBatchId(sessionId, batchId)
registerSessionAiBatchId(map, sessionId, batchId) ==
  IF NoSessionId(sessionId) THEN map
  ELSE [getOrCreateSession(map, sessionId) EXCEPT
          ![sessionId].aiBatchIds = setAdd(@, batchId)]

\* the map after setSessionOptimizedPrompt(sessionId, prompt)
setSessionOptimizedPrompt(map, sessionId, prompt) ==
  IF NoSessionId(sessionId) THEN map
  ELSE [getOrCreateSession(map, sessionId) EXCEPT ![sessionId].optimizedPrompt = prompt]

\* Array.from(session.aiBatchIds), [] without a session
getSessionAiBatchIds(sessionId) ==
  IF NoSessionId(sessionId) THEN <<>>
  ELSE IF sessionId \in DOMAIN sessionMap THEN sessionMap[sessionId].aiBatchIds
  ELSE <<>>

\* getSessionOptimizedPrompt(sessionId)
getSessionOptimizedPrompt(sessionId) ==
  IF NoSessionId(sessionId) \/ sessionId \notin DOMAIN sessionMap THEN NoOverride
  ELSE sessionMap[sessionId].optimizedPrompt

\* the session has its pending-optimization flag raised (a session object
\* has the flag and the change list only once they were set)
hasPendingOptimization(sessionId) ==
  /\ ~NoSessionId(sessionId)
  /\ sessionId \in DOMAIN sessionMap
  /\ "pendingOptimization" \in DOMAIN sessionMap[sessionId]
  /\ sessionMap[sessionId].pendingOptimization

\* the map after the ranking changes of a session are set: the list is
\* stored and the pending flag lowered
setSessionRankingChanges(map, sessionId, changes) ==
  IF NoSessionId(sessionId) THEN map
  ELSE LET created == getOrCreateSession(map, sessionId)
       IN [created EXCEPT ![sessionId] =
             ("pendingOptimization" :> FALSE) @@ ("rankingChanges" :> changes) @@ @]

\* the map after a session optimization has stashed its best prompt: the
\* override is set, the pending flag raised and a stale change list cleared
stashOptimizedPrompt(map, sessionId, prompt) ==
  IF NoSessionId(sessionId) THEN map
  ELSE LET set == setSessionOptimizedPrompt(map, sessionId, prompt)
       IN [set EXCEPT ![sessionId] =
             ("pendingOptimization" :> TRUE) @@ ("rankingChanges" :> <<>>) @@ @]

\* fetchLatestRanksByLeadId: for every lead with rows, the rank of its
\* latest row
fetchLatestRanksByLeadId(table) ==
  [id \in {table[j].leadId : j \in 1..Len(table)} |->
     LET rows == {j \in 1..Len(table) : table[j].leadId = id}
     IN table[CHOOSE j \in rows : \A k \in rows : k <= j].rank]

(***************************************************************************)
(* rankingRouter.start and runRankingProcess                               *)
(***************************************************************************)
generateBatchId == now

\* rankingRouter.start: the handler initialises the provider clients from
\* the environment, draws a batch id, starts runRankingProcess without
\* awaiting it (the run stops at its first await) and returns the id.
RankingStart(r, provider) ==
  /\ proc[r].pc = "idle"
  /\ proc' = [proc EXCEPT ![r] = [IdleProc EXCEPT !.pc = "fetchAllLeads", !.kind = "rank",
                                     !.provider = provider, !.batchId = generateBatchId,
                                     !.returned = TRUE]]
  /\ UNCHANGED <<optVars, dbVars, envVars, progressMap>>

\* a catch block that records nothing in the progress entry
RunCatch_quiet(r, message) ==
  /\ progressMap' = progressMap
  /\ proc' = [proc EXCEPT ![r].pc = "failed", ![r].thrown = message]

\* the catch block of runRankingProcess
RunCatch(r, message) ==
  /\ progressMap' = updateProgress(proc[r].batchId, [status |-> "error", error |-> message])
  /\ proc' = [proc EXCEPT ![r].pc = "failed", ![r].thrown = message]

\* await fetchAllLeads() and the synchronous code up to the next await:
\* that of fetchLatestRanksByLeadId when the session has an optimization
\* pending, else the one inside getActivePromptWithVersion
FetchAllLeads(r) ==
  /\ proc[r].pc = "fetchAllLeads"
  /\ \/ IF hasPendingOptimization(proc[r].sessionId)
        THEN /\ proc' = [proc EXCEPT ![r].allLeads = leads,
                                      ![r].companies = groupLeadsByCompany(leads),
                                      ![r].shouldCaptureChanges = TRUE,
                                      ![r].pc = "fetchLatestRanks"]
             /\ UNCHANGED <<progressMap, sessionMap>>
        ELSE /\ progressMap' = updateProgress(proc[r].batchId,
                                [total |-> Len(leads), completed |-> 0, status |-> "running"])
             /\ sessionMap' = registerSessionAiBatchId(sessionMap, proc[r].sessionId,
                                                       proc[r].batchId)
             /\ proc' = [proc EXCEPT ![r].allLeads = leads,
                                      ![r].companies = groupLeadsByCompany(leads),
                                      ![r].shouldCaptureChanges = FALSE,
                                      ![r].sessionPrompt =
                                          getSessionOptimizedPrompt(proc[r].sessionId),
                                      ![r].pc = "fetchActivePromptRow"]
     \/ RunCatch(r, "fetchAllLeads failed") /\ UNCHANGED sessionMap
  /\ UNCHANGED <<optVars, dbVars, runEnv>>

\* await fetchLatestRanksByLeadId() and the synchronous code up to the await
\* inside getActivePromptWithVersion
FetchLatestRanksByLeadId(r) ==
  /\ proc[r].pc = "fetchLatestRanks"
  /\ \/ /\ progressMap' = updateProgress(proc[r].batchId,
                               [total |-> Len(proc[r].allLeads), completed |-> 0,
                                status |-> "running"])
        /\ sessionMap' = registerSessionAiBatchId(sessionMap, proc[r].sessionId,
                                                  proc[r].batchId)
        /\ proc' = [proc EXCEPT ![r].previousRanks = fetchLatestRanksByLeadId(rankings),
                                 ![r].sessionPrompt =
                                     getSessionOptimizedPrompt(proc[r].sessionId),
                                 ![r].pc = "fetchActivePromptRow"]
     \/ RunCatch(r, "fetchLatestRanksByLeadId failed") /\ UNCHANGED sessionMap
  /\ UNCHANGED <<optVars, dbVars, runEnv>>

\* what follows the return of ensureActivePrompt in its caller
EnsureReturn(c, row) ==
  IF proc[c].kind = "rank"
  THEN LET selectedPrompt ==
             selectPromptForRanking([content |-> row.content, version |-> row.version],
                                    proc[c].sessionPrompt)
       IN /\ proc' = [proc EXCEPT ![c].activePrompt = [content |-> row.content, version |-> row.version],
                                   ![c].systemPrompt = selectedPrompt.content,
                                   ![c].promptVersion = selectedPrompt.version,
                                   ![c].pc = "clearAllRankings"]
          /\ UNCHANGED progressMap
  ELSE /\ proc' = [proc EXCEPT ![c].activePrompt = [content |-> row.content, version |-> row.version],
                                ![c].pc = "done"]
       /\ UNCHANGED progressMap

\* an exception leaving ensureActivePrompt
EnsureThrow(c, message) ==
  IF proc[c].kind = "rank"
  THEN RunCatch(c, message)
  ELSE /\ proc' = [proc EXCEPT ![c].pc = "failed", ![c].thrown = message]
       /\ UNCHANGED progressMap

\* ensureActivePrompt: the first fetchActivePromptRow
FetchActivePromptRow(c) ==
  /\ proc[c].pc = "fetchActivePromptRow"
  /\ \/ IF ActiveRows # {}
        THEN EnsureReturn(c, TopActiveRow)
        ELSE /\ proc' = [proc EXCEPT ![c].pc = "fetchLatestPromptVersion"]
             /\ UNCHANGED progressMap
     \/ EnsureThrow(c, "fetchActivePromptRow failed")
  /\ UNCHANGED <<optVars, dbVars, envVars>>

\* createDefaultPrompt: the read of the latest version; a failure is caught
\* by ensureActivePrompt, which goes on to fetch the active row again
FetchLatestPromptVersion(c) ==
  /\ proc[c].pc = "fetchLatestPromptVersion"
  /\ \/ proc' = [proc EXCEPT ![c].nextVersion = fetchLatestPromptVersion + 1,
                              ![c].pc = "insertDefaultPrompt"]
     \/ proc' = [proc EXCEPT ![c].storeFailed = TRUE,
                              ![c].pc = "refetchActivePromptRow"]
  /\ UNCHANGED <<optVars, dbVars, envVars, progressMap>>

\* createDefaultPrompt: the insert; the unique constraint on version rejects
\* a version that exists, or the store fails, and either error is caught
createDefaultPrompt(c) ==
  /\ proc[c].pc = "insertDefaultPrompt"
  /\ \/ IF proc[c].nextVersion \in {row.version : row \in prompts}
        THEN /\ UNCHANGED prompts
             /\ proc' = [proc EXCEPT ![c].pc = "refetchActivePromptRow"]
        ELSE /\ prompts' = prompts \cup {DefaultPromptRow(proc[c].nextVersion)}
             /\ proc' = [proc EXCEPT ![c].inserted = proc[c].nextVersion,
                                      ![c].pc = "refetchActivePromptRow"]
     \/ /\ UNCHANGED prompts
        /\ proc' = [proc EXCEPT ![c].storeFailed = TRUE,
                                 ![c].pc = "refetchActivePromptRow"]
  /\ UNCHANGED <<optVars, leads, rankings, envVars, progressMap>>

\* ensureActivePrompt: the second fetchActivePromptRow
RefetchActivePromptRow(c) ==
  /\ proc[c].pc = "refetchActivePromptRow"
  /\ \/ IF ActiveRows # {}
        THEN EnsureReturn(c, TopActiveRow)
        ELSE EnsureThrow(c, "No active prompt found. Default prompt creation failed.")
     \/ EnsureThrow(c, "fetchActivePromptRow failed")
  /\ UNCHANGED <<optVars, dbVars, envVars>>

\* getActivePromptWithVersion called on its own: it runs ensureActivePrompt
GetStart(c) ==
  /\ proc[c].pc = "idle"
  /\ proc' = [proc EXCEPT ![c] = [IdleProc EXCEPT !.pc = "fetchActivePromptRow",
                                                   !.kind = "get", !.before = prompts]]
  /\ UNCHANGED <<optVars, dbVars, envVars, progressMap>>

\* optimizerRouter.activate: the call of activatePrompt(version)
ActivateStart(c, version) ==
  /\ proc[c].pc = "idle"
  /\ proc' = [proc EXCEPT ![c] = [IdleProc EXCEPT !.pc = "deactivateAll",
                                                   !.kind = "activate", !.version = version]]
  /\ UNCHANGED <<optVars, dbVars, envVars, progressMap>>

\* activatePrompt: update prompts set isActive = false
DeactivateAll(c) ==
  /\ proc[c].pc = "deactivateAll"
  /\ \/ /\ prompts' = {[row EXCEPT !.isActive = FALSE] : row \in prompts}
        /\ proc' = [proc EXCEPT ![c].pc = "activateVersion"]
     \/ /\ UNCHANGED prompts
        /\ proc' = [proc EXCEPT ![c].pc = "failed", ![c].thrown = "store write failed"]
  /\ UNCHANGED <<optVars, leads, rankings, envVars, progressMap>>

\* activatePrompt: update prompts set isActive = true where version = version
ActivateVersion(c) ==
  /\ proc[c].pc = "activateVersion"
  /\ \/ /\ prompts' = {IF row.version = proc[c].version
                        THEN [row EXCEPT !.isActive = TRUE] ELSE row : row \in prompts}
        /\ proc' = [proc EXCEPT ![c].pc = "done"]
     \/ /\ UNCHANGED prompts
        /\ proc' = [proc EXCEPT ![c].pc = "failed", ![c].thrown = "store write failed"]
  /\ UNCHANGED <<optVars, leads, rankings, envVars, progressMap>>

\* a clear that keeps the rows of earlier runs
DeleteAllRows_keepOld(table) == table

\* db.delete(table) without a where clause
DeleteAllRows(table) == <<>>

\* a catch block that reports no processed lead
processCompanyCaught_zero(companyLeads) == [processed |-> 0, results |-> <<>>]

\* what processCompany returns from its catch block
processCompanyCaught(companyLeads) == [processed |-> Len(companyLeads), results |-> <<>>]

\* what processCompany returns after saveRankings
processCompanySaved(companyLeads, results) == [processed |-> Len(companyLeads), results |-> results]

\* the loop body of runRankingProcess after processCompany returned outcome
\* for the company at index idx: completed advances, then the next company
\* starts or the run ends.  failure tells what processCompany caught: "none",
\* "call" (the LLM call or a store operation failed) or "parse" (the parser
\* threw on the response).
AfterCompany(r, outcome, failure, rows) ==
  LET p == proc[r]
      completedLeads == p.completedLeads + outcome.processed
      advanced == updateProgress(p.batchId, [completed |-> completedLeads])
      rankingChanges ==
        IF p.shouldCaptureChanges /\ Len(outcome.results) > 0
        THEN p.rankingChanges
             \o buildRankingChanges(p.previousRanks, p.companies[p.idx].leads, outcome.results)
        ELSE p.rankingChanges
  IN IF p.idx < Len(p.companies)
     THEN /\ progressMap' =
                [advanced EXCEPT ![p.batchId].currentCompany = p.companies[p.idx + 1].name]
          /\ proc' = [proc EXCEPT ![r].completedLeads = completedLeads,
                                  ![r].results = <<>>,
                                  ![r].idx = p.idx + 1,
                                  ![r].logged = IF failure # "none" THEN @ + 1 ELSE @,
                                  ![r].callFailed = IF failure = "call" THEN @ + 1 ELSE @,
                                  ![r].saved = @ \o rows,
                                  ![r].rankingChanges = rankingChanges,
                                  ![r].pc = "chat"]
          /\ UNCHANGED sessionMap
     ELSE /\ progressMap' =
                [advanced EXCEPT ![p.batchId].status = "completed",
                                 ![p.batchId].currentCompany = NoCompany]
          /\ proc' = [proc EXCEPT ![r].completedLeads = completedLeads,
                                  ![r].results = <<>>,
                                  ![r].logged = IF failure # "none" THEN @ + 1 ELSE @,
                                  ![r].callFailed = IF failure = "call" THEN @ + 1 ELSE @,
                                  ![r].saved = @ \o rows,
                                  ![r].rankingChanges = rankingChanges,
                                  ![r].pc = "done"]
          /\ sessionMap' = IF p.shouldCaptureChanges
                           THEN setSessionRankingChanges(sessionMap, p.sessionId, rankingChanges)
                           ELSE sessionMap

\* await clearAllRankings() and the start of the loop
clearAllRankings(r) ==
  /\ proc[r].pc = "clearAllRankings"
  /\ \/ /\ rankings' = DeleteAllRows(rankings)
        /\ IF proc[r].companies = <<>>
           THEN /\ progressMap' = updateProgress(proc[r].batchId,
                                      [status |-> "completed", currentCompany |-> NoCompany])
                /\ proc' = [proc EXCEPT ![r].completedLeads = 0, ![r].pc = "done"]
                /\ sessionMap' = IF proc[r].shouldCaptureChanges
                                 THEN setSessionRankingChanges(sessionMap, proc[r].sessionId,
                                                               <<>>)
                                 ELSE sessionMap
           ELSE /\ progressMap' = updateProgress(proc[r].batchId,
                                      [currentCompany |-> proc[r].companies[1].name])
                /\ proc' = [proc EXCEPT ![r].completedLeads = 0, ![r].idx = 1, ![r].pc = "chat"]
                /\ UNCHANGED sessionMap
     \/ /\ RunCatch(r, "clearAllRankings failed")
        /\ UNCHANGED <<rankings, sessionMap>>
  /\ UNCHANGED <<optVars, leads, prompts, runEnv>>

\* the lead ids of the company whose response the run is about to parse
currentLeadIds(r) ==
  IF proc[r].pc = "logAiCall" THEN leadIdsOf(proc[r].companies[proc[r].idx].leads) ELSE <<>>

\* rankLeadsBatch: await ai.chat answers; the run goes on to await
\* logAiCall.  chat throws when the provider has no client.
chat(r) ==
  /\ proc[r].pc = "chat"
  /\ proc[r].provider \in configured
  /\ proc' = [proc EXCEPT ![r].pc = "logAiCall"]
  /\ UNCHANGED <<progressMap, sessionMap, optVars, dbVars, runEnv>>

\* rankLeadsBatch: await logAiCall succeeds and the response that chat
\* returned is parsed; when the parser throws, processCompany catches it
rankLeadsBatch(r, response) ==
  /\ proc[r].pc = "logAiCall"
  /\ IF parseThrows(response)
     THEN AfterCompany(r, processCompanyCaught(proc[r].companies[proc[r].idx].leads),
                       "parse", <<>>)
     ELSE /\ proc' = [proc EXCEPT
                        ![r].results = parseRankingResponse(response, currentLeadIds(r)),
                        ![r].pc = "saveRankings"]
          /\ UNCHANGED <<progressMap, sessionMap>>
  /\ UNCHANGED <<optVars, dbVars, runEnv>>

\* rankLeadsBatch throws (at await ai.chat: no client for the provider or a
\* failed call; at await logAiCall: a failed log insert) and processCompany
\* catches it
rankLeadsBatchThrows(r) ==
  /\ proc[r].pc \in {"chat", "logAiCall"}
  /\ AfterCompany(r, processCompanyCaught(proc[r].companies[proc[r].idx].leads), "call", <<>>)
  /\ UNCHANGED <<optVars, dbVars, runEnv>>

\* processCompany: saveRankings of the parsed results, or its failure.  The
\* insert is rejected when a row names a lead that is not in the leads table
\* (rankings.lead_id references leads.id).
saveRankings(r) ==
  /\ proc[r].pc = "saveRankings"
  /\ LET companyLeads == proc[r].companies[proc[r].idx].leads
         rankingsToInsert ==
           [i \in 1..Len(proc[r].results) |->
              toRankingEntry(proc[r].results[i], proc[r].promptVersion, r)]
     IN \/ /\ \A i \in 1..Len(rankingsToInsert) :
                rankingsToInsert[i].leadId \in SeqToSet(leadIdsOf(leads))
           /\ rankings' = rankings \o rankingsToInsert
           /\ AfterCompany(r, processCompanySaved(companyLeads, proc[r].results),
                           "none", rankingsToInsert)
        \/ /\ UNCHANGED rankings
           /\ AfterCompany(r, processCompanyCaught(companyLeads), "call", <<>>)
  /\ UNCHANGED <<optVars, leads, prompts, runEnv>>

(***************************************************************************)
(* leadsRouter: importFromCsv, runTestData and clearAll, which replace     *)
(* the tables a run reads and writes                                       *)
(***************************************************************************)
BATCH_SIZE == 50

\* what parseLeadsCSV returns for the CSV texts at hand: no data row, or one
CsvRows == {<<>>, <<[accountName |-> "A", firstName |-> "Ava", lastName |-> "Stone"]>>}

\* db.insert(leads).values(batch): every row gets an id of its own
\* (defaultRandom), which no row had before
insertLeads(table, batch, lastId) ==
  table \o [i \in 1..Len(batch) |->
              [id |-> lastId + i, accountName |-> batch[i].accountName,
               firstName |-> batch[i].firstName, lastName |-> batch[i].lastName]]

\* a mutation of leadsRouter is called: the call starts handler kind with
\* the parsed rows and stops at its first await, or throws message before it
LeadsCall(h, kind, rows, first, message) ==
  /\ proc[h].pc \in {"idle", "done", "failed"}
  /\ proc[h].calls < MaxLeadsCalls
  /\ proc' = [proc EXCEPT ![h] =
                [IdleProc EXCEPT !.kind = kind, !.rows = rows, !.calls = proc[h].calls + 1,
                                 !.pc = IF message = NoError THEN first ELSE "failed",
                                 !.thrown = message]]
  /\ UNCHANGED dbVars

\* the awaits importFromCsv and runTestData share: delete rankings, delete
\* leads (the rankings rows of a deleted lead are deleted with it) and the
\* inserts of the rows in batches of BATCH_SIZE; afterDelete is the await
\* that follows the deletes ("insertLeads" for the loop), afterInsert the
\* one that follows the loop
ReplaceLeads(h, afterDelete, afterInsert) ==
  LET p == proc[h]
      loopFrom(i) == IF i < Len(p.rows) THEN "insertLeads" ELSE afterInsert
  IN \/ /\ p.pc = "deleteRankings"
        /\ rankings' = DeleteAllRows(rankings)
        /\ proc' = [proc EXCEPT ![h].pc = "deleteLeads"]
        /\ UNCHANGED <<leads, prompts>>
     \/ /\ p.pc = "deleteLeads"
        /\ leads' = DeleteAllRows(leads)
        /\ rankings' = DeleteAllRows(rankings)
        /\ proc' = [proc EXCEPT ![h].idx = 0,
                                 ![h].pc = IF afterDelete = "insertLeads" THEN loopFrom(0)
                                           ELSE afterDelete]
        /\ UNCHANGED prompts
     \/ /\ p.pc = "insertLeads"
        /\ LET upTo == IF p.idx + BATCH_SIZE < Len(p.rows) THEN p.idx + BATCH_SIZE
                       ELSE Len(p.rows)
           IN /\ leads' = insertLeads(leads, SubSeq(p.rows, p.idx + 1, upTo),
                                      p.calls * (MaxLeads + 1) + p.idx)
              /\ proc' = [proc EXCEPT ![h].idx = upTo, ![h].pc = loopFrom(upTo)]
        /\ UNCHANGED <<rankings, prompts>>
     \/ /\ p.pc \in {"deleteRankings", "deleteLeads", "insertLeads"}
        /\ proc' = [proc EXCEPT ![h].pc = "failed", ![h].thrown = "store write failed"]
        /\ UNCHANGED dbVars

\* leadsRouter.importFromCsv: the call with the rows of its CSV text, which
\* throws when there is none, and its awaits
importFromCsv(h, rows) ==
  /\ \/ LeadsCall(h, "importFromCsv", rows, "deleteRankings",
                   IF Len(rows) = 0
                   THEN "CSV has no data rows. Expected header: account_name, lead_first_name, lead_last_name, lead_job_title, account_domain, account_employee_range, account_industry"
                   ELSE NoError)
     \/ /\ proc[h].kind = "importFromCsv"
        /\ ReplaceLeads(h, "insertLeads", "done")
  /\ UNCHANGED <<optVars, envVars, progressMap>>

\* leadsRouter.runTestData: the call, which throws when leads.csv is not
\* found, and its awaits; the insert of prompt version 1 is rejected when
\* the version exists
runTestData(h, found, rows) ==
  /\ \/ LeadsCall(h, "runTestData", rows, "deleteRankings",
                   IF found THEN NoError
                   ELSE "leads.csv not found. Run from repo root or ensure leads.csv is present.")
     \/ /\ proc[h].kind = "runTestData"
        /\ \/ ReplaceLeads(h, "deletePrompts", "insertPrompt")
           \/ /\ proc[h].pc = "deletePrompts"
              /\ prompts' = {}
              /\ proc' = [proc EXCEPT ![h].pc = IF Len(proc[h].rows) > 0 THEN "insertLeads"
                                                ELSE "insertPrompt"]
              /\ UNCHANGED <<leads, rankings>>
           \/ /\ proc[h].pc = "insertPrompt"
              /\ IF 1 \in {row.version : row \in prompts}
                 THEN /\ proc' = [proc EXCEPT
                                    ![h].pc = "failed",
                                    ![h].thrown = "duplicate key value violates unique constraint"]
                      /\ UNCHANGED prompts
                 ELSE /\ prompts' = prompts \cup {DefaultPromptRow(1)}
                      /\ proc' = [proc EXCEPT ![h].pc = "done"]
              /\ UNCHANGED <<leads, rankings>>
           \/ /\ proc[h].pc \in {"deletePrompts", "insertPrompt"}
              /\ proc' = [proc EXCEPT ![h].pc = "failed", ![h].thrown = "store write failed"]
              /\ UNCHANGED dbVars
  /\ UNCHANGED <<optVars, envVars, progressMap>>

\* leadsRouter.clearAll: the call, and clearAllData, one transaction that
\* deletes the rows of ai_call_logs, rankings, leads and prompts
clearAll(h) ==
  /\ \/ LeadsCall(h, "clearAll", <<>>, "clearAllData", NoError)
     \/ /\ proc[h].kind = "clearAll" /\ proc[h].pc = "clearAllData"
        /\ \/ /\ rankings' = DeleteAllRows(rankings)
              /\ leads' = DeleteAllRows(leads)
              /\ prompts' = {}
              /\ proc' = [proc EXCEPT ![h].pc = "done"]
           \/ /\ proc' = [proc EXCEPT ![h].pc = "failed", ![h].thrown = "store write failed"]
              /\ UNCHANGED dbVars
  /\ UNCHANGED <<optVars, envVars, progressMap>>

(***************************************************************************)
(* Ranking runs over a store of leads                                      *)
(***************************************************************************)
InitRank ==
  /\ leads \in LeadTables
  /\ rankings \in {<<>>, OldRankings(leads)}
  /\ prompts \in {{}, {DefaultPromptRow(1)}}
  /\ configured \in SUBSET Providers
  /\ now = 0
  /\ sessionMap = <<>>
  /\ call = NoCall
  /\ evalOutcomes = FitnessValues
  /\ progressMap = <<>>
  /\ proc = [r \in RankRuns |-> IdleProc]
  /\ optimizationProgressMap = <<>>
  /\ opt = [o \in OptRuns |-> IdleOpt]

\* one ranking run, with every response
NextRank ==
  \/ \E provider \in Providers : RankingStart(1, provider)
  \/ FetchAllLeads(1)
  \/ FetchActivePromptRow(1)
  \/ FetchLatestPromptVersion(1)
  \/ createDefaultPrompt(1)
  \/ RefetchActivePromptRow(1)
  \/ clearAllRankings(1)
  \/ chat(1)
  \/ \E response \in Responses(currentLeadIds(1)) : rankLeadsBatch(1, response)
  \/ rankLeadsBatchThrows(1)
  \/ saveRankings(1)

SpecRank == InitRank /\ [][NextRank]_vars

(***************************************************************************)
(* Properties of ranking runs                                              *)
(***************************************************************************)
RowsOfLead(table, id) == {j \in 1..Len(table) : table[j].leadId = id}

\* C1: for every batchId the progress status changes only along
\* idle -> running, running -> completed and running -> error, so that
\* completed and error are never left, also when a run fails fetching leads.
C1_StatusEdges ==
  [][\A b \in DOMAIN progressMap' :
       LET old == getRankingProgress(b).status
           new == getRankingProgress(b)'.status
       IN old = new \/ <<old, new>> \in {<<"idle", "running">>, <<"running", "completed">>,
                                         <<"running", "error">>}]_vars

\* C2: a run that is alone and in which no LLM call failed and no store
\* operation failed ends with exactly one ranking row per lead, and with
\* completed = total = number of leads and status completed.
C2_OneRowPerLead ==
  (proc[1].pc = "done" /\ proc[1].callFailed = 0) =>
     /\ Len(rankings) = Len(leads)
     /\ \A i \in 1..Len(leads) : Cardinality(RowsOfLead(rankings, leads[i].id)) = 1
     /\ getRankingProgress(proc[1].batchId).status = "completed"
     /\ getRankingProgress(proc[1].batchId).total = Len(leads)
     /\ getRankingProgress(proc[1].batchId).completed = Len(leads)

\* C3: when a run that is alone has completed, rankings holds exactly the
\* rows this run inserted and no row from before the run.
C3_FullReplace ==
  proc[1].pc = "done" =>
     /\ rankings = proc[1].saved
     /\ \A j \in 1..Len(rankings) : rankings[j].by = 1

C3_Witness ==
  /\ proc[1].pc = "done"
  /\ Len(leads) = 2 /\ Len(rankings) = 2
  /\ proc[1].allLeads = leads
  /\ \A j \in 1..Len(rankings) : rankings[j].by = 1 /\ rankings[j].rank # 1

\* C4: a company whose LLM call or whose save throws does not abort the run:
\* completed advances by the company's lead count, the next company follows
\* (or the run ends with status completed), and the status is never error
\* once the loop over the companies has begun.
C4_CompanyFailureContinues ==
  [][proc[1].pc \in {"chat", "logAiCall", "saveRankings"} =>
       LET p == proc[1]
           n == Len(p.companies[p.idx].leads)
           before == getRankingProgress(p.batchId)
           after == getRankingProgress(p.batchId)'
       IN /\ proc'[1].pc \in {"chat", "logAiCall", "saveRankings", "done"}
          /\ after.status \in {"running", "completed"}
          /\ (proc'[1].pc = "done") = (after.status = "completed")
          /\ proc'[1].logged = p.logged + 1 =>
                /\ after.completed = before.completed + n
                /\ IF p.idx < Len(p.companies)
                   THEN /\ proc'[1].pc = "chat" /\ proc'[1].idx = p.idx + 1
                        /\ after.currentCompany = p.companies[p.idx + 1].name
                   ELSE /\ proc'[1].pc = "done"
                        /\ after.completed = after.total]_vars

C4_Witness ==
  /\ proc[1].pc = "done" /\ proc[1].logged = 1
  /\ Len(proc[1].companies) = 2
  /\ Len(rankings) = 1 /\ rankings[1].leadId = proc[1].companies[2].leads[1].id
  /\ getRankingProgress(proc[1].batchId).status = "completed"
  /\ getRankingProgress(proc[1].batchId).completed = 2

\* the steps of runRankingProcess before its clear step
BeforeClear ==
  {"fetchAllLeads", "fetchLatestRanks", "fetchActivePromptRow", "fetchLatestPromptVersion",
   "insertDefaultPrompt", "refetchActivePromptRow"}

\* C29: a ranking run that fails before its clear step (fetching the leads
\* or resolving the active prompt throws) leaves the rankings table as it
\* was, and its status is error with the failure's message: no step the run
\* takes before its clear step changes rankings, also while a leadsRouter
\* mutation is under way, and the step that fails records the error.
C29_FailureBeforeClear ==
  [][(proc[1].kind = "rank" /\ proc[1].pc \in BeforeClear /\ proc'[1] # proc[1]) =>
       /\ rankings' = rankings
       /\ proc'[1].pc = "failed" =>
            /\ proc'[1].thrown # NoError
            /\ getRankingProgress(proc[1].batchId)'.status = "error"
            /\ getRankingProgress(proc[1].batchId)'.error = proc'[1].thrown]_vars

C29_Witness ==
  /\ proc[1].kind = "rank" /\ proc[1].pc = "failed"
  /\ proc[1].thrown = "fetchActivePromptRow failed"
  /\ Len(leads) = 2 /\ rankings = OldRankings(leads)
  /\ getRankingProgress(proc[1].batchId).status = "error"
  /\ getRankingProgress(proc[1].batchId).error = "fetchActivePromptRow failed"
  /\ proc[2].kind = "importFromCsv" /\ proc[2].pc = "deleteRankings"

\* C30: in every reachable state of a run's progress 0 <= completed <= total,
\* completed never decreases once the run is running, and status completed
\* implies completed = total and currentCompany = null.
C30_ProgressCounts ==
  [][\A b \in DOMAIN progressMap' :
       LET old == getRankingProgress(b)
           new == getRankingProgress(b)'
       IN /\ 0 <= new.completed /\ new.completed <= new.total
          /\ old.status # "idle" => old.completed <= new.completed
          /\ new.status = "completed" =>
               new.completed = new.total /\ new.currentCompany = NoCompany]_vars

\* C5: with no credential for the requested provider, start fails before
\* any run starts: no batch id is returned, no run is running and no ranking
\* row is deleted.
C5_NoCredentialNoRun ==
  \A r \in RankRuns :
     (proc[r].kind = "rank" /\ proc[r].provider \notin configured) =>
        /\ ~proc[r].returned
        /\ proc[r].pc \in {"idle", "failed"}
        /\ getRankingProgress(proc[r].batchId).status # "running"

\* C6: a ranking run started on a store without leads ends with status
\* error and is never completed.
C6_NoLeadsIsError ==
  \A r \in RankRuns :
     (proc[r].kind = "rank" /\ Len(leads) = 0 /\ proc[r].pc \in {"done", "failed"}) =>
        /\ proc[r].pc = "failed"
        /\ getRankingProgress(proc[r].batchId).status = "error"

(***************************************************************************)
(* Concurrent callers of the prompt store: each slot is one call of        *)
(* getActivePromptWithVersion or of activatePrompt                         *)
(***************************************************************************)
InitPrompts ==
  /\ leads = <<>>
  /\ rankings = <<>>
  /\ prompts \in {s \in PromptStores : Cardinality({row \in s : row.isActive}) <= 1}
  /\ configured = Providers
  /\ now = 0
  /\ sessionMap = <<>>
  /\ call = NoCall
  /\ evalOutcomes = FitnessValues
  /\ progressMap = <<>>
  /\ proc = [r \in RankRuns |-> IdleProc]
  /\ optimizationProgressMap = <<>>
  /\ opt = [o \in OptRuns |-> IdleOpt]

NextPrompts ==
  \/ \E c \in RankRuns : GetStart(c)
  \/ \E c \in RankRuns, version \in 1..(MaxStored + 1) : ActivateStart(c, version)
  \/ \E c \in RankRuns : DeactivateAll(c)
  \/ \E c \in RankRuns : ActivateVersion(c)
  \/ \E c \in RankRuns : FetchActivePromptRow(c)
  \/ \E c \in RankRuns : FetchLatestPromptVersion(c)
  \/ \E c \in RankRuns : createDefaultPrompt(c)
  \/ \E c \in RankRuns : RefetchActivePromptRow(c)

SpecPrompts == InitPrompts /\ [][NextPrompts]_vars

\* C7: at most one prompt row has isActive = true, under any interleaving of
\* activatePrompt calls and default-prompt creations.
C7_AtMostOneActive == Cardinality(ActiveRows) <= 1

(***************************************************************************)
(* Two calls of getActivePromptWithVersion, one after the other, and no    *)
(* other writer of the prompt store                                        *)
(***************************************************************************)
InitGet ==
  /\ leads = <<>>
  /\ rankings = <<>>
  /\ prompts \in PromptStores
  /\ configured = Providers
  /\ now = 0
  /\ sessionMap = <<>>
  /\ call = NoCall
  /\ evalOutcomes = FitnessValues
  /\ progressMap = <<>>
  /\ proc = [r \in RankRuns |-> IdleProc]
  /\ optimizationProgressMap = <<>>
  /\ opt = [o \in OptRuns |-> IdleOpt]

\* the second call starts when the first one is over
GetStartSecond ==
  /\ proc[1].pc \in {"done", "failed"}
  /\ GetStart(2)

NextGet ==
  \/ GetStart(1)
  \/ GetStartSecond
  \/ \E c \in RankRuns : FetchActivePromptRow(c)
  \/ \E c \in RankRuns : FetchLatestPromptVersion(c)
  \/ \E c \in RankRuns : createDefaultPrompt(c)
  \/ \E c \in RankRuns : RefetchActivePromptRow(c)

SpecGet == InitGet /\ [][NextGet]_vars

\* the call of slot c started with no active prompt row
CalledWithNoActive(c) ==
  /\ proc[c].kind = "get"
  /\ {row \in proc[c].before : row.isActive} = {}

\* C8 as stated: a call with no active prompt creates version 1 with the
\* default content, active, and returns it.
C8_CreatesVersionOne ==
  (CalledWithNoActive(1) /\ proc[1].pc = "done") =>
    /\ DefaultPromptRow(1) \in prompts
    /\ proc[1].activePrompt = [content |-> DEFAULT_PROMPT, version |-> 1]

\* C8, amended: a call with no active prompt whose store operations succeed
\* creates one row, with the version after the highest stored one (1 over
\* an empty table), the default content and isActive, and returns it; a
\* call that follows a call that returned returns the same row and creates
\* no row.
C8_CreatesNextVersion ==
  /\ (CalledWithNoActive(1) /\ proc[1].pc = "done") =>
        /\ proc[1].inserted = MaxVersionOf(proc[1].before) + 1
        /\ proc[1].before \cup {DefaultPromptRow(proc[1].inserted)} \subseteq prompts
        /\ proc[1].activePrompt = [content |-> DEFAULT_PROMPT, version |-> proc[1].inserted]
  /\ (CalledWithNoActive(1) /\ proc[1].pc = "failed") =>
        \/ proc[1].storeFailed
        \/ proc[1].thrown = "fetchActivePromptRow failed"
  /\ (proc[1].pc = "done" /\ proc[2].pc = "done") =>
        /\ proc[2].activePrompt = proc[1].activePrompt
        /\ proc[2].inserted = 0
        /\ prompts = proc[2].before
        /\ Cardinality(prompts) <= Cardinality(proc[1].before) + 1

\* the first call created a default prompt over a table that had rows, and
\* the second call has returned
C8_Witness ==
  /\ CalledWithNoActive(1)
  /\ proc[1].before # {}
  /\ proc[1].inserted = MaxVersionOf(proc[1].before) + 1
  /\ proc[1].pc = "done"
  /\ proc[2].pc = "done"
  /\ proc[2].activePrompt.version = proc[1].inserted

(***************************************************************************)
(* prompt-optimizer.ts: progress, genetic helpers                          *)
(***************************************************************************)
DEFAULT_OPT_PROGRESS ==
  [status |-> "idle", currentGeneration |-> 0, totalGenerations |-> 0, populationSize |-> 0,
   bestFitness |-> 0, currentBestPrompt |-> "", evaluationsRun |-> 0, error |-> NoError]

getOptimizationProgress(runId) ==
  IF runId \in DOMAIN optimizationProgressMap
  THEN optimizationProgressMap[runId] ELSE DEFAULT_OPT_PROGRESS

updateOptimizationProgress(map, runId, update) ==
  LET current == IF runId \in DOMAIN map THEN map[runId] ELSE DEFAULT_OPT_PROGRESS
      updated == [f \in DOMAIN current |->
                    IF f \in DOMAIN update THEN update[f] ELSE current[f]]
  IN [b \in DOMAIN map \cup {runId} |-> IF b = runId THEN updated ELSE map[b]]

\* a > b on numbers: false when either side is NaN
FGt(a, b) == a # NaN /\ b # NaN /\ a > b

\* the text an LLM mutation or crossover returns
GeneratedContents == {"generated"}

createCandidate(content, version, generation, parentVersion) ==
  [content |-> content, version |-> version, fitness |-> 0, generation |-> generation,
   parentVersion |-> parentVersion]

RECURSIVE insertByFitness(_, _)
insertByFitness(c, sorted) ==
  IF sorted = <<>> THEN <<c>>
  ELSE IF ~FGt(c.fitness, Head(sorted).fitness)
       THEN <<Head(sorted)>> \o insertByFitness(c, Tail(sorted))
       ELSE <<c>> \o sorted

RECURSIVE sortInto(_, _)
sortInto(rest, acc) ==
  IF rest = <<>> THEN acc ELSE sortInto(Tail(rest), insertByFitness(Head(rest), acc))

\* [...population].sort((a, b) => b.fitness - a.fitness) over numbers: a
\* stable sort
sortByFitness(population) == sortInto(population, <<>>)

\* the orders of population
OrdersOf(population) ==
  {[i \in 1..Len(population) |-> population[f[i]]] :
     f \in {g \in [1..Len(population) -> 1..Len(population)] :
              \A i, j \in 1..Len(population) : g[i] = g[j] => i = j}}

\* What the sort can return.  With a NaN fitness the comparator is not
\* consistent (NaN compares equal to every number) and the order is left to
\* the implementation.
SortOutcomes(population) ==
  IF \E i \in 1..Len(population) : population[i].fitness = NaN
  THEN OrdersOf(population)
  ELSE {sortByFitness(population)}

RECURSIVE reduceBest(_, _)
reduceBest(best, rest) ==
  IF rest = <<>> THEN best
  ELSE reduceBest(IF FGt(Head(rest).fitness, best.fitness) THEN Head(rest) ELSE best,
                  Tail(rest))

\* tournamentSelect for the drawn indices
tournamentSelect(population, picks) ==
  LET tournament == [i \in 1..TOURNAMENT_SIZE |-> population[picks[i]]]
  IN reduceBest(Head(tournament), Tail(tournament))

\* the candidates tournamentSelect can return: Math.random draws every index
\* list of length TOURNAMENT_SIZE
TournamentWinners(population) ==
  {tournamentSelect(population, picks) :
     picks \in [1..TOURNAMENT_SIZE -> 1..Len(population)]}

\* the candidates with the fitness values one evaluatePopulation call
\* assigns from index startFrom + 1 on
Evaluated(population, startFrom) ==
  {[i \in 1..Len(population) |->
      IF i > startFrom THEN [population[i] EXCEPT !.fitness = f[i]] ELSE population[i]]
   : f \in [(startFrom + 1)..Len(population) -> evalOutcomes]}

PROMPT_PREVIEW_LENGTH == 200

\* the preview of the best prompt:
\* `${content.substring(0, PROMPT_PREVIEW_LENGTH)}...`
PromptPreview(content) ==
  (IF Len(content) <= PROMPT_PREVIEW_LENGTH THEN content
   ELSE SubSeq(content, 1, PROMPT_PREVIEW_LENGTH)) \o "..."

(***************************************************************************)
(* optimizerRouter.start and runPromptOptimization                         *)
(***************************************************************************)
generateRunId == now

\* optimizerRouter.start with a non-empty eval set: the run is started and
\* not awaited; it sets its progress to running before its first await.
OptimizerStart(o, provider, generations) ==
  /\ opt[o].pc = "idle"
  /\ opt' = [opt EXCEPT ![o] = [IdleOpt EXCEPT !.pc = "fetchBasePrompt",
                                   !.runId = generateRunId, !.provider = provider,
                                   !.generations = generations,
                                   !.populationSize = PopulationSize]]
  /\ optimizationProgressMap' =
        updateOptimizationProgress(optimizationProgressMap, generateRunId,
          [status |-> "running", totalGenerations |-> generations,
           populationSize |-> PopulationSize, currentGeneration |-> 0,
           bestFitness |-> 0, evaluationsRun |-> 0])
  /\ UNCHANGED <<dbVars, envVars, rankVars>>

\* the catch block of runPromptOptimization
OptCatch(o, message) ==
  /\ optimizationProgressMap' =
        updateOptimizationProgress(optimizationProgressMap, opt[o].runId,
          [status |-> "error", error |-> message])
  /\ opt' = [opt EXCEPT ![o].pc = "failed", ![o].thrown = message]

\* await fetchBasePrompt(), sampleArray and the start of initializePopulation
fetchBasePrompt(o) ==
  /\ opt[o].pc = "fetchBasePrompt"
  /\ \/ IF ActiveRows = {}
        THEN OptCatch(o, "No active prompt found")
        ELSE /\ opt' = [opt EXCEPT
                          ![o].basePrompt = [content |-> TopActiveRow.content,
                                             version |-> TopActiveRow.version],
                          ![o].population =
                             <<createCandidate(TopActiveRow.content, TopActiveRow.version, 0, NULL)>>,
                          ![o].nextVersion = TopActiveRow.version + 1,
                          ![o].pc = "initializePopulation"]
             /\ UNCHANGED optimizationProgressMap
     \/ OptCatch(o, "store read failed")
  /\ UNCHANGED <<dbVars, envVars, rankVars>>

\* the companies of the sampled evaluation set: evaluatePrompt awaits one
\* evaluateCompanyBatch for each of them
EvalCompanies == 1

\* what chat throws for a provider without a client
ApiKeyNotConfigured(provider) ==
  IF provider = "openai" THEN "OpenAI API key not configured"
  ELSE IF provider = "gemini" THEN "Gemini API key not configured"
  ELSE "Anthropic API key not configured"

\* the awaits of the step the run is in: an LLM call awaits ai.chat and then
\* logAiCall; evaluatePopulation makes one call per candidate and company, a
\* mutation a quick evaluation and then its own call
AwaitsOf(o) ==
  IF opt[o].pc = "initializePopulation" THEN 2
  ELSE IF opt[o].pc = "evaluateInitial" THEN Len(opt[o].population) * EvalCompanies * 2
  ELSE IF opt[o].pc = "runGeneration"
       THEN (IF opt[o].op = "mutation" THEN EvalCompanies * 2 + 2 ELSE 2)
  ELSE IF opt[o].pc = "evaluateGeneration"
       THEN (Len(opt[o].newPopulation) - EliteCount) * EvalCompanies * 2
  ELSE 1

\* the run is suspended at the last await of its step: the last logAiCall,
\* or the ai.chat of the last evaluateCompanyBatch call of an evaluation
\* (the awaits alternate: chat at even counts, logAiCall at odd ones), whose
\* failure skips the logAiCall
AtLastAwait(o) ==
  \/ opt[o].awaited + 1 >= AwaitsOf(o)
  \/ /\ opt[o].pc \in {"evaluateInitial", "evaluateGeneration"}
     /\ opt[o].awaited % 2 = 0
     /\ opt[o].awaited + 2 >= AwaitsOf(o)

\* an await of ai.chat or logAiCall inside a step, not the last one of the
\* step.  generateOffspring draws its operator before its first await.  A
\* chat or log insert that throws inside evaluateCompanyBatch is caught
\* there (after a chat that threw, the logAiCall is skipped); one of
\* mutatePrompt or crossoverPrompts ends the run; chat throws when the
\* provider has no client.
OptAwait(o, mutate) ==
  /\ opt[o].pc \in {"initializePopulation", "evaluateInitial", "runGeneration",
                    "evaluateGeneration"}
  /\ opt[o].awaited + 1 < AwaitsOf(o)
  /\ LET op == IF opt[o].pc = "runGeneration" /\ opt[o].awaited = 0
               THEN (IF mutate THEN "mutation" ELSE "crossover")
               ELSE opt[o].op
         inEvaluation ==
           \/ opt[o].pc \in {"evaluateInitial", "evaluateGeneration"}
           \/ op = "mutation" /\ opt[o].awaited < EvalCompanies * 2
         atChat == opt[o].awaited % 2 = 0
     IN \/ /\ ~atChat \/ opt[o].provider \in configured
           /\ opt' = [opt EXCEPT ![o].awaited = @ + 1, ![o].op = op]
           /\ UNCHANGED optimizationProgressMap
        \/ /\ inEvaluation /\ atChat
           /\ op = "mutation" \/ opt[o].awaited + 2 < AwaitsOf(o)
           /\ opt' = [opt EXCEPT ![o].awaited = @ + 2, ![o].op = op]
           /\ UNCHANGED optimizationProgressMap
        \/ /\ ~inEvaluation
           /\ OptCatch(o, IF ~atChat THEN "store write failed"
                          ELSE IF opt[o].provider \in configured THEN "LLM call failed"
                          ELSE ApiKeyNotConfigured(opt[o].provider))
  /\ UNCHANGED <<dbVars, envVars, rankVars>>

\* initializePopulation: the logAiCall of one mutatePrompt call of the loop
\* and the push of the candidate
initializePopulation(o, content) ==
  /\ opt[o].pc = "initializePopulation"
  /\ AtLastAwait(o)
  /\ \/ /\ LET population == Append(opt[o].population,
                                     createCandidate(content, opt[o].nextVersion, 0, NULL))
           IN opt' = [opt EXCEPT ![o].population = population,
                                 ![o].nextVersion = @ + 1,
                                 ![o].awaited = 0,
                                 ![o].pc = IF Len(population) < opt[o].populationSize
                                           THEN "initializePopulation"
                                           ELSE "evaluateInitial"]
        /\ UNCHANGED optimizationProgressMap
     \/ OptCatch(o, "store write failed")
  /\ UNCHANGED <<dbVars, envVars, rankVars>>

\* the run after the evolution loop's body for generation gen, or before the
\* first generation: the next generation or saveBestPrompt
NextGenerationOrSave(o, gen) ==
  IF gen <= opt[o].generations THEN "runGeneration" ELSE "saveBestPrompt"

\* the outcomes of the evaluatePopulation call the run is about to leave at
\* step pc
PendingEvaluation(o, pc, population, startFrom) ==
  IF opt[o].pc = pc /\ AtLastAwait(o) THEN Evaluated(population, startFrom) ELSE {}

\* the last await of evaluatePopulation over the initial population
\* (evaluatePrompt catches the failures of its LLM calls), the sort and the
\* first best candidate
evaluateInitial(o, population, sorted) ==
  /\ opt[o].pc = "evaluateInitial"
  /\ population \in PendingEvaluation(o, "evaluateInitial", opt[o].population, 0)
  /\ sorted \in SortOutcomes(population)
  /\ LET bestCandidate == sorted[1]
         totalEvaluations == Len(population)
     IN /\ opt' = [opt EXCEPT ![o].population = sorted,
                              ![o].bestCandidate = bestCandidate,
                              ![o].seedFitness = population[1].fitness,
                              ![o].totalEvaluations = totalEvaluations,
                              ![o].gen = 1,
                              ![o].newPopulation = <<>>,
                              ![o].awaited = 0,
                              ![o].pc = NextGenerationOrSave(o, 1)]
        /\ optimizationProgressMap' =
              updateOptimizationProgress(optimizationProgressMap, opt[o].runId,
                [evaluationsRun |-> totalEvaluations,
                 bestFitness |-> bestCandidate.fitness,
                 currentBestPrompt |-> PromptPreview(bestCandidate.content),
                 currentGeneration |-> IF 1 <= opt[o].generations THEN 1 ELSE 0])
  /\ UNCHANGED <<dbVars, envVars, rankVars>>

\* the elites runGeneration copies from the sorted population
Elites(population, generation) ==
  [i \in 1..(IF EliteCount < Len(population) THEN EliteCount ELSE Len(population)) |->
     [population[i] EXCEPT !.generation = generation]]

\* runGeneration: the logAiCall of the mutatePrompt or crossoverPrompts call
\* of one generateOffspring call, and the push of the child.  The two
\* parents come from tournaments over the drawn indices; with mutate the
\* child is a mutation of one parent after a quick evaluation (one extra
\* evaluation), otherwise a crossover.
generateOffspring(o, parent1, parent2, mutate, content) ==
  /\ opt[o].pc = "runGeneration"
  /\ AtLastAwait(o)
  /\ mutate = (opt[o].op = "mutation")
  /\ parent1 \in TournamentWinners(opt[o].population)
  /\ parent2 \in TournamentWinners(opt[o].population)
  /\ LET base == IF opt[o].newPopulation = <<>>
                 THEN Elites(opt[o].population, opt[o].gen)
                 ELSE opt[o].newPopulation
         child == createCandidate(content, opt[o].nextVersion, opt[o].gen, parent1.version)
         newPopulation == Append(base, child)
     IN \/ /\ opt' = [opt EXCEPT ![o].newPopulation = newPopulation,
                                 ![o].nextVersion = @ + 1,
                                 ![o].awaited = 0,
                                 ![o].op = "none",
                                 ![o].extraEvaluations = @ + (IF mutate THEN 1 ELSE 0),
                                 ![o].pc = IF Len(newPopulation) < opt[o].populationSize
                                           THEN "runGeneration" ELSE "evaluateGeneration"]
           /\ UNCHANGED optimizationProgressMap
        \/ OptCatch(o, "store write failed")
  /\ UNCHANGED <<dbVars, envVars, rankVars>>

\* runGeneration: the last await of evaluatePopulation over the new
\* candidates (the elites are skipped) and the sort; then the loop body of
\* runPromptOptimization
evaluateGeneration(o, newPopulation, sorted) ==
  /\ opt[o].pc = "evaluateGeneration"
  /\ newPopulation \in PendingEvaluation(o, "evaluateGeneration", opt[o].newPopulation,
                                         EliteCount)
  /\ sorted \in SortOutcomes(newPopulation)
  /\ LET topCandidate == sorted[1]
         better == FGt(topCandidate.fitness, opt[o].bestCandidate.fitness)
         bestCandidate == IF better THEN topCandidate ELSE opt[o].bestCandidate
         totalEvaluations == opt[o].totalEvaluations + opt[o].extraEvaluations
                               + (Len(newPopulation) - EliteCount)
         counted == updateOptimizationProgress(optimizationProgressMap, opt[o].runId,
                      [evaluationsRun |-> totalEvaluations])
         improved == IF better
                     THEN updateOptimizationProgress(counted, opt[o].runId,
                            [bestFitness |-> bestCandidate.fitness,
                             currentBestPrompt |-> PromptPreview(bestCandidate.content)])
                     ELSE counted
     IN /\ opt' = [opt EXCEPT ![o].population = sorted,
                              ![o].newPopulation = <<>>,
                              ![o].bestCandidate = bestCandidate,
                              ![o].totalEvaluations = totalEvaluations,
                              ![o].extraEvaluations = 0,
                              ![o].awaited = 0,
                              ![o].gen = @ + 1,
                              ![o].pc = NextGenerationOrSave(o, opt[o].gen + 1)]
        /\ optimizationProgressMap' =
              IF opt[o].gen + 1 <= opt[o].generations
              THEN updateOptimizationProgress(improved, opt[o].runId,
                     [currentGeneration |-> opt[o].gen + 1])
              ELSE improved
  /\ UNCHANGED <<dbVars, envVars, rankVars>>

\* a saved row that is active at once
BestPromptRow_active(candidate) ==
  PromptRow(candidate.version, candidate.content, TRUE, candidate.fitness,
            candidate.generation, candidate.parentVersion)

\* the row saveBestPrompt inserts
BestPromptRow(candidate) ==
  PromptRow(candidate.version, candidate.content, FALSE, candidate.fitness,
            candidate.generation, candidate.parentVersion)

\* await saveBestPrompt(bestCandidate): the insert is rejected when the
\* version exists (unique constraint), or the store fails; then completed
saveBestPrompt(o) ==
  /\ opt[o].pc = "saveBestPrompt"
  /\ \/ IF opt[o].bestCandidate.version \in {row.version : row \in prompts}
        THEN /\ OptCatch(o, "duplicate key value violates unique constraint")
             /\ UNCHANGED prompts
        ELSE /\ prompts' = prompts \cup {BestPromptRow(opt[o].bestCandidate)}
             /\ optimizationProgressMap' =
                   updateOptimizationProgress(optimizationProgressMap, opt[o].runId,
                     [status |-> "completed", bestFitness |-> opt[o].bestCandidate.fitness])
             /\ opt' = [opt EXCEPT ![o].pc = "done"]
     \/ /\ OptCatch(o, "store write failed")
        /\ UNCHANGED prompts
  /\ UNCHANGED <<leads, rankings, envVars, rankVars>>

(***************************************************************************)
(* One optimization run over a seeded prompt store                         *)
(***************************************************************************)
\* the stores an optimization run starts over: empty, the default prompt
\* alone, and the default prompt with the best candidate an earlier run
\* saved as version 2, activated since or not
OptStores ==
  {{}, {DefaultPromptRow(1)},
   {DefaultPromptRow(1), PromptRow(2, "generated", FALSE, 100, 0, NULL)},
   {[DefaultPromptRow(1) EXCEPT !.isActive = FALSE],
    PromptRow(2, "generated", TRUE, 100, 0, NULL)}}

InitOpt ==
  /\ leads = <<>>
  /\ rankings = <<>>
  /\ prompts \in OptStores
  /\ configured = {"openai"}
  /\ now = 0
  /\ sessionMap = <<>>
  /\ call = NoCall
  /\ evalOutcomes = FitnessValues
  /\ progressMap = <<>>
  /\ proc = [r \in RankRuns |-> IdleProc]
  /\ optimizationProgressMap = <<>>
  /\ opt = [o \in OptRuns |-> IdleOpt]

NextOpt ==
  \/ \E o \in OptRuns, provider \in Providers, generations \in 1..MaxGenerations :
        OptimizerStart(o, provider, generations)
  \/ \E o \in OptRuns : fetchBasePrompt(o)
  \/ \E o \in OptRuns, content \in GeneratedContents : initializePopulation(o, content)
  \/ \E o \in OptRuns, mutate \in BOOLEAN : OptAwait(o, mutate)
  \/ \E o \in OptRuns :
        \E population \in PendingEvaluation(o, "evaluateInitial", opt[o].population, 0) :
          \E sorted \in SortOutcomes(population) : evaluateInitial(o, population, sorted)
  \/ \E o \in OptRuns, mutate \in BOOLEAN, content \in GeneratedContents :
        \E parent1 \in TournamentWinners(opt[o].population),
           parent2 \in TournamentWinners(opt[o].population) :
          generateOffspring(o, parent1, parent2, mutate, content)
  \/ \E o \in OptRuns :
        \E newPopulation \in PendingEvaluation(o, "evaluateGeneration",
                                               opt[o].newPopulation, EliteCount) :
          \E sorted \in SortOutcomes(newPopulation) :
            evaluateGeneration(o, newPopulation, sorted)
  \/ \E o \in OptRuns : saveBestPrompt(o)

SpecOpt == InitOpt /\ [][NextOpt]_vars

(***************************************************************************)
(* One optimization run of one generation with an LLM whose evaluation     *)
(* responses may lack a numeric rank                                       *)
(***************************************************************************)
InitOptNaN ==
  /\ leads = <<>>
  /\ rankings = <<>>
  /\ prompts = {DefaultPromptRow(1)}
  /\ configured = {"openai"}
  /\ now = 0
  /\ sessionMap = <<>>
  /\ call = NoCall
  /\ evalOutcomes = FitnessValues \cup {NaN}
  /\ progressMap = <<>>
  /\ proc = [r \in RankRuns |-> IdleProc]
  /\ optimizationProgressMap = <<>>
  /\ opt = [o \in OptRuns |-> IdleOpt]

NextOptNaN ==
  \/ \E o \in OptRuns : OptimizerStart(o, "openai", 1)
  \/ \E o \in OptRuns : fetchBasePrompt(o)
  \/ \E o \in OptRuns, content \in GeneratedContents : initializePopulation(o, content)
  \/ \E o \in OptRuns, mutate \in BOOLEAN : OptAwait(o, mutate)
  \/ \E o \in OptRuns :
        \E population \in PendingEvaluation(o, "evaluateInitial", opt[o].population, 0) :
          \E sorted \in SortOutcomes(population) : evaluateInitial(o, population, sorted)
  \/ \E o \in OptRuns, mutate \in BOOLEAN, content \in GeneratedContents :
        \E parent1 \in TournamentWinners(opt[o].population),
           parent2 \in TournamentWinners(opt[o].population) :
          generateOffspring(o, parent1, parent2, mutate, content)
  \/ \E o \in OptRuns :
        \E newPopulation \in PendingEvaluation(o, "evaluateGeneration",
                                               opt[o].newPopulation, EliteCount) :
          \E sorted \in SortOutcomes(newPopulation) :
            evaluateGeneration(o, newPopulation, sorted)
  \/ \E o \in OptRuns : saveBestPrompt(o)

SpecOptNaN == InitOptNaN /\ [][NextOptNaN]_vars

(***************************************************************************)
(* Claims about optimization runs                                          *)
(***************************************************************************)
\* the failures of a run that are failures of an LLM call, of a store read
\* or of the store itself
CallFailures ==
  {"LLM call failed", "store read failed", "store write failed", "No active prompt found"}
  \cup {ApiKeyNotConfigured(provider) : provider \in Providers}

\* C9: a run whose LLM calls and store reads succeed persists its best-ever
\* candidate as a new inactive row with its fitness, generation and
\* parentVersion and ends completed, never in error, whichever candidate is
\* the best one: a run that failed failed in a call, and a run that is over
\* left the row of its best candidate and the status completed.
C9_BestIsPersisted ==
  \A o \in OptRuns :
    /\ opt[o].pc = "failed" => opt[o].thrown \in CallFailures
    /\ opt[o].pc = "done" =>
          /\ BestPromptRow(opt[o].bestCandidate) \in prompts
          /\ getOptimizationProgress(opt[o].runId).status = "completed"

\* the candidates a run has created besides the copy of its base prompt
CreatedCandidates(o) ==
  {c \in SeqToSet(opt[o].population) \cup SeqToSet(opt[o].newPopulation) :
     c.version # opt[o].basePrompt.version}

\* C10: a persisted version number is never reused: while a run is under
\* way, no candidate it created carries the version of a stored prompt row.
C10_VersionNeverReused ==
  \A o \in OptRuns :
    opt[o].pc \notin {"idle", "fetchBasePrompt", "done"} =>
      \A c \in CreatedCandidates(o) : c.version \notin {row.version : row \in prompts}

\* C11: an optimization run never changes which prompts are active: no step
\* of a run adds a row to or removes a row from the rows with isActive = true,
\* so the set is the same when the run ends as when it started.
C11_ActiveSetUnchanged ==
  [][{row \in prompts' : row.isActive} = {row \in prompts : row.isActive}]_vars

\* a run over a store with an active prompt has saved its best candidate
C11_Witness ==
  \E o \in OptRuns :
    /\ opt[o].pc = "done"
    /\ ActiveRows # {}
    /\ \E row \in prompts : row.version = opt[o].bestCandidate.version /\ ~row.isActive

\* C12: once the initial evaluation is over, the published bestFitness of a
\* run never decreases, and after every generation it is greater than or
\* equal to the fitness of the seed prompt.
C12_BestFitnessNeverRegresses ==
  [][\A o \in OptRuns :
       LET old == getOptimizationProgress(opt[o].runId).bestFitness
           new == getOptimizationProgress(opt[o].runId)'.bestFitness
       IN /\ (opt[o].gen >= 1 /\ opt'[o].gen >= 1) => ~FGt(old, new)
          /\ opt'[o].gen >= 2 =>
               /\ new # NaN /\ opt'[o].seedFitness # NaN
               /\ new >= opt'[o].seedFitness]_vars

(***************************************************************************)
(* parseRankingResponse applied to response texts                          *)
(***************************************************************************)
\* the reasoning texts of the entries of a response, by position
Reasonings == <<"first", "second", "third", "fourth">>

TagByPosition(items) ==
  [i \in 1..Len(items) |->
     IF items[i].leadId = NullElement THEN items[i]
     ELSE [items[i] EXCEPT !.reasoning = Reasonings[i]]]

\* response texts with and without the rankings member
TextsWithRankings ==
  {<<"{", "R", "}">>, <<"x", "{", "R", "}", "x">>, <<"{", "R", "}", "{">>,
   <<"}", "{", "R", "}">>, <<"{", "R">>, <<"R", "}">>, <<"R">>,
   <<"{", "x", "R", "}">>, <<"{", "R", "}", "}">>}

TextsWithoutRankings ==
  {<<>>, <<"x">>, <<"{">>, <<"}">>, <<"}", "{">>, <<"{", "}">>, <<"{", "x", "}">>}

\* the entries a response may hold for the requested ids: a requested id, no
\* id, an id that was not requested, or null; the rank is 1, 2, null, a
\* number out of range, or missing or not numeric (NaN after Number())
ParseItems(leadIds) ==
  [leadId : SeqToSet(leadIds) \cup {NoLeadId, UnknownLeadId}, rank : {1, 2, NULL, 11, NaN},
   reasoning : {"ai"}]
  \cup {NullItem}

ParseResponses(leadIds) ==
  {[text |-> t, items |-> <<>>] : t \in TextsWithoutRankings}
  \cup {[text |-> t, items |-> TagByPosition(s)] :
          t \in TextsWithRankings, s \in SeqsUpTo(ParseItems(leadIds), MaxItems)}

\* duplicate-free lists of lead ids
ParseLeadIds == {<<>>, <<1>>, <<2, 1>>}

\* a program in which nothing runs and nothing is stored
NothingRuns ==
  /\ leads = <<>> /\ rankings = <<>> /\ prompts = {}
  /\ configured = {} /\ now = 0 /\ sessionMap = <<>>
  /\ evalOutcomes = FitnessValues
  /\ progressMap = <<>>
  /\ proc = [r \in RankRuns |-> IdleProc]
  /\ optimizationProgressMap = <<>>
  /\ opt = [o \in OptRuns |-> IdleOpt]

\* the variables a call of a pure function leaves alone
callUnchanged ==
  UNCHANGED <<dbVars, rankVars, optVars, configured, now, sessionMap, evalOutcomes>>

InitParse ==
  /\ NothingRuns
  /\ \E ids \in ParseLeadIds : \E response \in ParseResponses(ids) :
        call = [fn |-> "parseRankingResponse", response |-> response, leadIds |-> ids,
                done |-> FALSE, threw |-> FALSE, results |-> <<>>]

\* one call of parseRankingResponse: it returns its results or throws
ParseRankingResponseCall ==
  /\ call.fn = "parseRankingResponse" /\ ~call.done
  /\ call' = IF parseThrows(call.response)
             THEN [call EXCEPT !.done = TRUE, !.threw = TRUE]
             ELSE [call EXCEPT !.done = TRUE,
                               !.results = parseRankingResponse(call.response, call.leadIds)]
  /\ callUnchanged

NextParse == ParseRankingResponseCall

SpecParse == InitParse /\ [][NextParse]_vars

Parsed == call.fn = "parseRankingResponse" /\ call.done

\* C13: for every response and every duplicate-free list leadIds,
\* parseRankingResponse returns exactly Len(leadIds) results, each result's
\* leadId is one of leadIds and no leadId occurs twice.
C13_OneResultPerLeadId ==
  Parsed =>
     /\ ~call.threw
     /\ Len(call.results) = Len(call.leadIds)
     /\ \A i \in 1..Len(call.results) : call.results[i].leadId \in SeqToSet(call.leadIds)
     /\ \A i, j \in 1..Len(call.results) :
           call.results[i].leadId = call.results[j].leadId => i = j

RECURSIVE BracesBalanced(_, _)
\* the braces of a text are balanced: no "}" without an earlier "{", and
\* every "{" closed (those of the rankings member are balanced in themselves)
BracesBalanced(text, depth) ==
  IF text = <<>> THEN depth = 0
  ELSE IF Head(text) = "{" THEN BracesBalanced(Tail(text), depth + 1)
  ELSE IF Head(text) = "}" THEN depth > 0 /\ BracesBalanced(Tail(text), depth - 1)
  ELSE BracesBalanced(Tail(text), depth)

\* the text from the first "{" to the last "}", <<>> when there is none
MatchedText(response) ==
  LET match == jsonMatch(response)
  IN IF match = <<0, 0>> THEN <<>> ELSE SubSeq(response.text, match[1], match[2])

\* the matched text is no JSON document
NotJson(response) ==
  /\ MatchedText(response) \notin {<<"{", "R", "}">>, <<"{", "}">>}
  /\ ~(MatchedText(response) = <<"R">> /\ Cardinality(ObjectItems(response)) = 1)

Malformed(response) ==
  \/ \A i \in 1..Len(response.text) : ~OpensBrace(response, i)
  \/ ~BracesBalanced(response.text, 0)
  \/ NotJson(response)

\* C14 as stated: for every malformed response (no "{", unbalanced braces,
\* or a body that is no JSON) every result of parseRankingResponse has
\* rank null.
C14_MalformedAllNull ==
  (Parsed /\ Malformed(call.response)) =>
     \A i \in 1..Len(call.results) : call.results[i].rank = NULL

\* C14: for every response without a "{" ... "}" span, or whose text from
\* the first "{" to the last "}" is no JSON document, parseRankingResponse
\* returns one result per requested id and every result has rank null.
C14_NoJsonAllNull ==
  (Parsed /\ NotJson(call.response)) =>
     /\ ~call.threw
     /\ Len(call.results) = Len(call.leadIds)
     /\ \A i \in 1..Len(call.results) : call.results[i].rank = NULL

C14_Witness ==
  /\ Parsed
  /\ call.response.text = <<"{", "x", "R", "}">>
  /\ \E i \in 1..Len(call.response.items) :
        /\ call.response.items[i].leadId \in SeqToSet(call.leadIds)
        /\ call.response.items[i].rank # NULL
  /\ Len(call.results) = 2
  /\ \A i \in 1..Len(call.results) : call.results[i].rank = NULL

\* C15: when the rankings list of the response has several entries with the
\* same requested leadId, the result for that id has the rank and the
\* reasoning of the first such entry, and there is one result for the id.
C15_FirstOccurrenceWins ==
  (Parsed /\ ~call.threw /\ call.response.text = <<"{", "R", "}">>) =>
     \A id \in SeqToSet(call.leadIds) :
        LET items == call.response.items
            entries == {i \in 1..Len(items) : items[i].leadId = id}
            kept == {j \in 1..Len(call.results) : call.results[j].leadId = id}
        IN entries # {} =>
             LET first == CHOOSE i \in entries : \A k \in entries : i <= k
             IN /\ Cardinality(kept) = 1
                /\ \A j \in kept :
                      /\ call.results[j].rank = items[first].rank
                      /\ call.results[j].reasoning = items[first].reasoning

C15_Witness ==
  /\ Parsed /\ ~call.threw /\ call.response.text = <<"{", "R", "}">>
  /\ Len(call.response.items) = 2
  /\ call.response.items[1].leadId = 1 /\ call.response.items[2].leadId = 1
  /\ call.response.items[1].rank = 2 /\ call.response.items[2].rank = 1
  /\ call.leadIds = <<1>>
  /\ call.results = <<[leadId |-> 1, rank |-> 2, reasoning |-> "first"]>>

\* C26: every RankingResult parseRankingResponse returns has a rank that is
\* null or an integer from 1 to 10, whatever rank values the response holds
\* (missing, not numeric, out of range).
C26_RankNullOrOneToTen ==
  (Parsed /\ ~call.threw) =>
     \A i \in 1..Len(call.results) : call.results[i].rank \in (1..10) \cup {NULL}

(***************************************************************************)
(* buildRankingChanges                                                     *)
(***************************************************************************)
\* sample inputs: the leads of a company, the ranks stored before the run
\* (a number or null, for some of the leads), and results whose rank is a
\* number, null or NaN
ChangeLead(id) ==
  [id |-> id, firstName |-> IF id = 1 THEN "Ava" ELSE "Ben",
   lastName |-> IF id = 1 THEN "Stone" ELSE "King", accountName |-> "A"]

ChangeLeads == {<<>>, <<ChangeLead(1)>>, <<ChangeLead(1), ChangeLead(2)>>}

OldRankMaps ==
  {<<>>, (1 :> 1), (1 :> NULL), (2 :> 1), (1 :> 1) @@ (2 :> 2), (1 :> 2) @@ (2 :> NULL)}

ChangeResults ==
  SeqsUpTo([leadId : {1, 2, UnknownLeadId}, rank : {1, 2, NULL, NaN}, reasoning : {"ai"}],
           MaxItems)

InitChanges ==
  /\ NothingRuns
  /\ call \in [fn : {"buildRankingChanges"}, oldRanks : OldRankMaps,
                companyLeads : ChangeLeads, results : ChangeResults, done : {FALSE},
                changes : {<<>>}]

BuildRankingChangesCall ==
  /\ call.fn = "buildRankingChanges" /\ ~call.done
  /\ call' = [call EXCEPT !.done = TRUE,
                          !.changes = buildRankingChanges(call.oldRanks, call.companyLeads,
                                                          call.results)]
  /\ callUnchanged

NextChanges == BuildRankingChangesCall

SpecChanges == InitChanges /\ [][NextChanges]_vars

\* the rank a lead had before: null for a lead oldRanks does not hold
OldRankOf(id) ==
  IF id \in DOMAIN call.oldRanks THEN call.oldRanks[id] ELSE NULL

\* the results that have a change entry coming: the lead is among the given
\* leads and the new rank differs from the old one
ChangedResults ==
  {i \in 1..Len(call.results) :
     /\ \E k \in 1..Len(call.companyLeads) : call.companyLeads[k].id = call.results[i].leadId
     /\ call.results[i].rank # OldRankOf(call.results[i].leadId)}

\* C16: buildRankingChanges returns, in result order, exactly one entry for
\* each result whose lead is among the given leads and whose new rank
\* differs from its old rank (null for a lead absent from oldRanks), and no
\* entry whose old rank equals its new rank.
C16_OnlyChanges ==
  (call.fn = "buildRankingChanges" /\ call.done) =>
     /\ Len(call.changes) = Cardinality(ChangedResults)
     /\ \A k \in 1..Len(call.changes) :
           LET i == CHOOSE i \in ChangedResults :
                      Cardinality({j \in ChangedResults : j < i}) = k - 1
           IN /\ call.changes[k].leadId = call.results[i].leadId
              /\ call.changes[k].oldRank = OldRankOf(call.results[i].leadId)
              /\ call.changes[k].newRank = call.results[i].rank
              /\ call.changes[k].oldRank # call.changes[k].newRank

C16_Witness ==
  /\ call.fn = "buildRankingChanges" /\ call.done
  /\ call.oldRanks = (1 :> 1)
  /\ Len(call.companyLeads) = 2
  /\ call.results = <<[leadId |-> 2, rank |-> NULL, reasoning |-> "ai"],
                      [leadId |-> 1, rank |-> 2, reasoning |-> "ai"]>>
  /\ Len(call.changes) = 1
  /\ call.changes[1].leadId = 1 /\ call.changes[1].oldRank = 1 /\ call.changes[1].newRank = 2

(***************************************************************************)
(* selectPromptForRanking                                                  *)
(***************************************************************************)
\* sample inputs: active prompts of several contents and versions, and a
\* session prompt that is absent, empty, or a text
SelectActivePrompts == [content : {DEFAULT_PROMPT, "base", "alt", ""}, version : {1, 2, 3}]

SelectOverrides == {NoOverride, "", "alt", "base", "session prompt"}

InitSelect ==
  /\ NothingRuns
  /\ call \in [fn : {"selectPromptForRanking"}, activePrompt : SelectActivePrompts,
                sessionPrompt : SelectOverrides, done : {FALSE},
                selected : {[content |-> "", version |-> 0]}]

SelectPromptForRankingCall ==
  /\ call.fn = "selectPromptForRanking" /\ ~call.done
  /\ call' = [call EXCEPT !.done = TRUE,
                          !.selected = selectPromptForRanking(call.activePrompt,
                                                              call.sessionPrompt)]
  /\ callUnchanged

NextSelect == SelectPromptForRankingCall

SpecSelect == InitSelect /\ [][NextSelect]_vars

\* C17: selectPromptForRanking returns the override text as content with
\* the active prompt's version when an override is given, and the active
\* prompt's content and version when no override is given.
C17_OverrideKeepsVersion ==
  (call.fn = "selectPromptForRanking" /\ call.done) =>
     /\ call.selected.version = call.activePrompt.version
     /\ call.sessionPrompt # NoOverride => call.selected.content = call.sessionPrompt
     /\ call.sessionPrompt = NoOverride => call.selected = call.activePrompt

C17_Witness ==
  /\ call.fn = "selectPromptForRanking" /\ call.done
  /\ call.activePrompt = [content |-> "base", version |-> 2]
  /\ call.sessionPrompt = "alt"
  /\ call.selected = [content |-> "alt", version |-> 2]

(***************************************************************************)
(* Fitness of a prompt: scorePrediction, calculateFitness, evaluatePrompt  *)
(***************************************************************************)
maxDist == 9

Abs(x) == IF x < 0 THEN -x ELSE x

\* a + b of numbers, NaN when either is NaN
NumAdd(a, b) == IF a = NaN \/ b = NaN THEN NaN ELSE a + b

\* a scoring that gives nothing when both ranks are null
scorePrediction_strict(predicted, actual) ==
  IF predicted = NULL \/ actual = NULL THEN 0
  ELSE IF predicted = NaN \/ actual = NaN THEN NaN
  ELSE maxDist - Abs(predicted - actual)

\* scorePrediction in units of 1/maxDist: 1 is maxDist, and
\* 1 - distance / maxDist is maxDist - distance
scorePrediction(predicted, actual) ==
  IF (actual # NULL) # (predicted # NULL) THEN 0
  ELSE IF actual = NULL THEN maxDist
  ELSE IF predicted = NaN \/ actual = NaN THEN NaN
  ELSE maxDist - Abs(predicted - actual)

RECURSIVE totalScore(_, _)
\* predictions.reduce((sum, p) => sum + scorePrediction(p.predicted, p.actual), 0)
totalScore(predictions, sum) ==
  IF predictions = <<>> THEN sum
  ELSE totalScore(Tail(predictions),
                  NumAdd(sum, scorePrediction(Head(predictions).predicted,
                                              Head(predictions).actual)))

\* calculateFitness as the fraction num / den (num is NaN for a NaN)
calculateFitness(predictions) ==
  IF Len(predictions) = 0 THEN [num |-> 0, den |-> 1]
  ELSE [num |-> totalScore(predictions, 0), den |-> maxDist * Len(predictions)]

\* name.toLowerCase() over the names of the samples
toLowerCase(name) ==
  IF name \in {"Ava Stone", "ava stone"} THEN "ava stone"
  ELSE IF name \in {"Ben King", "ben king"} THEN "ben king"
  ELSE IF name \in {"Unknown", "unknown"} THEN "unknown"
  ELSE name

\* findLeadByName: the positions of the leads of that name, first one found
findLeadByName(evalLeads, name) ==
  {i \in 1..Len(evalLeads) :
     /\ toLowerCase(evalLeads[i].fullName) = toLowerCase(name)
     /\ \A j \in 1..(i - 1) : toLowerCase(evalLeads[j].fullName) # toLowerCase(name)}

RECURSIVE evalItems(_, _)
\* the loop over the rankings of an evaluation response: one prediction per
\* entry that names a lead
evalItems(items, companyLeads) ==
  IF items = <<>> THEN <<>>
  ELSE LET found == findLeadByName(companyLeads, Head(items).name)
       IN (IF found = {} THEN <<>>
           ELSE LET lead == companyLeads[CHOOSE i \in found : TRUE]
                IN <<[lead |-> lead.fullName,
                      predicted |-> IF Head(items).rank = NULL THEN NULL ELSE Head(items).rank,
                      actual |-> lead.expectedRank]>>)
          \o evalItems(Tail(items), companyLeads)

\* what the catch block of evaluateCompanyBatch returns
failedPredictions(companyLeads) ==
  [i \in 1..Len(companyLeads) |->
     [lead |-> companyLeads[i].fullName, predicted |-> NULL,
      actual |-> companyLeads[i].expectedRank]]

\* parseEvalResponse when it does not throw
parseEvalResponse(response, companyLeads) ==
  LET matched == IF extractJson(response) = "rankings"
                 THEN evalItems(response.items, companyLeads) ELSE <<>>
      processedNames == {matched[i].lead : i \in 1..Len(matched)}
      missing == SelectSeq(failedPredictions(companyLeads),
                           LAMBDA p : p.lead \notin processedNames)
  IN matched \o missing

\* evaluateCompanyBatch: the predictions of the parsed response, or the
\* failed predictions when chat, logAiCall or the parser throws
evaluateCompanyBatch(response, companyLeads, callThrows) ==
  IF callThrows \/ parseThrows(response) THEN failedPredictions(companyLeads)
  ELSE parseEvalResponse(response, companyLeads)

\* samples: predictions, evaluation sets of one company, responses
SamplePredictions ==
  SeqsUpTo([lead : {"Ava Stone"}, predicted : {1, 3, 10, NULL, NaN}, actual : {1, 10, NULL}],
           MaxItems)

EvalSets ==
  {<<[fullName |-> "Ava Stone", expectedRank |-> 1]>>,
   <<[fullName |-> "Ava Stone", expectedRank |-> 1],
     [fullName |-> "Ben King", expectedRank |-> NULL]>>,
   <<[fullName |-> "Ava Stone", expectedRank |-> 10],
     [fullName |-> "Ben King", expectedRank |-> 2]>>}

\* the entries of an evaluation response: the rank is a number, null, or
\* missing or not numeric (NaN after Number())
EvalItems ==
  [name : {"Ava Stone", "ben king", "Unknown"}, rank : {1, 19, NULL, NaN}] \cup {NullItem}

EvalResponses ==
  {[text |-> t, items |-> <<>>] : t \in {<<"x">>, <<"{", "}">>}}
  \cup {[text |-> <<"{", "R", "}">>, items |-> s] : s \in SeqsUpTo(EvalItems, MaxItems)}

InitFitness ==
  /\ NothingRuns
  /\ \/ call \in [fn : {"calculateFitness"}, predictions : SamplePredictions,
                   done : {FALSE}, fitness : {[num |-> 0, den |-> 1]}]
     \/ call \in [fn : {"evaluatePrompt"}, evalLeads : EvalSets, response : EvalResponses,
                   awaiting : {"chat"}, callThrows : {FALSE}, done : {FALSE},
                   predictions : {<<>>}, fitness : {[num |-> 0, den |-> 1]}]

CalculateFitnessCall ==
  /\ call.fn = "calculateFitness" /\ ~call.done
  /\ call' = [call EXCEPT !.done = TRUE, !.fitness = calculateFitness(call.predictions)]
  /\ callUnchanged

\* evaluatePrompt over an evaluation set of one company: the await of
\* ai.chat in evaluateCompanyBatch.  A chat that throws is caught, and
\* evaluatePrompt returns the failed predictions and their fitness.
EvaluateCompanyChat(throws) ==
  /\ call.fn = "evaluatePrompt" /\ ~call.done /\ call.awaiting = "chat"
  /\ IF throws
     THEN LET predictions == evaluateCompanyBatch(call.response, call.evalLeads, TRUE)
          IN call' = [call EXCEPT !.done = TRUE, !.callThrows = TRUE,
                                  !.predictions = predictions,
                                  !.fitness = calculateFitness(predictions)]
     ELSE call' = [call EXCEPT !.awaiting = "logAiCall"]
  /\ callUnchanged

\* evaluatePrompt over an evaluation set of one company: the await of
\* logAiCall in evaluateCompanyBatch, the parse and the fitness
EvaluatePromptCall(throws) ==
  /\ call.fn = "evaluatePrompt" /\ ~call.done /\ call.awaiting = "logAiCall"
  /\ LET predictions == evaluateCompanyBatch(call.response, call.evalLeads, throws)
     IN call' = [call EXCEPT !.done = TRUE, !.callThrows = throws,
                             !.predictions = predictions,
                             !.fitness = calculateFitness(predictions)]
  /\ callUnchanged

NextFitness ==
  \/ CalculateFitnessCall
  \/ \E throws \in BOOLEAN : EvaluateCompanyChat(throws)
  \/ \E throws \in BOOLEAN : EvaluatePromptCall(throws)

SpecFitness == InitFitness /\ [][NextFitness]_vars

\* the score of the claim for one prediction, in ninths
NinthsOf(p) ==
  IF (p.predicted = NULL) # (p.actual = NULL) THEN 0
  ELSE IF p.predicted = NULL THEN 9
  ELSE IF p.predicted = NaN \/ p.actual = NaN THEN NaN
  ELSE 9 - (IF p.predicted > p.actual THEN p.predicted - p.actual
            ELSE p.actual - p.predicted)

\* the sum of the scores of the first k predictions, by position
SumOfNinths(predictions) ==
  LET sum[k \in 0..Len(predictions)] ==
        IF k = 0 THEN 0 ELSE sum[k - 1] + NinthsOf(predictions[k])
  IN sum[Len(predictions)]

\* C18: calculateFitness returns 0 for an empty prediction list and
\* otherwise the arithmetic mean of the scores, where a prediction scores 0
\* if exactly one of predicted and expected is null, 1 if both are null and
\* 1 - |predicted - expected| / 9 if both are non-null.
C18_FitnessIsMeanScore ==
  (call.fn = "calculateFitness" /\ call.done) =>
     IF call.predictions = <<>> THEN call.fitness.num = 0
     ELSE IF \E k \in 1..Len(call.predictions) : NinthsOf(call.predictions[k]) = NaN
     THEN call.fitness.num = NaN
     ELSE /\ call.fitness.den = 9 * Len(call.predictions)
          /\ call.fitness.num = SumOfNinths(call.predictions)

C18_Witness ==
  /\ call.fn = "calculateFitness" /\ call.done
  /\ call.predictions = <<[lead |-> "Ava Stone", predicted |-> 3, actual |-> 1],
                          [lead |-> "Ava Stone", predicted |-> NULL, actual |-> NULL]>>
  /\ call.fitness = [num |-> 16, den |-> 18]

\* C19: the fitness evaluatePrompt gives a candidate lies in the range 0..1
\* for every rank value the LLM may return in an evaluation response.
C19_FitnessInUnitRange ==
  (call.fn = "evaluatePrompt" /\ call.done) =>
     /\ call.fitness.num # NaN
     /\ 0 <= call.fitness.num /\ call.fitness.num <= call.fitness.den

\* C22: when the LLM call of an evaluation fails, every lead of that
\* company batch is recorded as one prediction, and each of these
\* predictions contributes a score of zero to the candidate's fitness.
C22_FailedCallScoresZero ==
  (call.fn = "evaluatePrompt" /\ call.done /\ call.callThrows) =>
     /\ Len(call.predictions) = Len(call.evalLeads)
     /\ \A i \in 1..Len(call.predictions) :
          /\ call.predictions[i].lead = call.evalLeads[i].fullName
          /\ scorePrediction(call.predictions[i].predicted, call.predictions[i].actual) = 0
     /\ call.fitness.num = 0

\* C27: evaluating a candidate yields exactly one prediction per sampled
\* lead, and the fitness is the mean over exactly the sampled leads,
\* whatever names the evaluation response repeats or invents.
C27_OnePredictionPerLead ==
  (call.fn = "evaluatePrompt" /\ call.done) =>
     /\ Len(call.predictions) = Len(call.evalLeads)
     /\ \A i \in 1..Len(call.evalLeads) :
          Cardinality({k \in 1..Len(call.predictions) :
                         call.predictions[k].lead = call.evalLeads[i].fullName}) = 1
     /\ call.fitness.den = maxDist * Len(call.evalLeads)

(***************************************************************************)
(* The session store                                                       *)
(***************************************************************************)
\* call.log is the list of the registerSessionAiBatchId calls made so far,
\* call.returned what the last getSessionAiBatchIds(call.asked) returned,
\* and call.got tells that no call was registered since
InitSession ==
  /\ NothingRuns
  /\ call = [fn |-> "session", log |-> <<>>, asked |-> NoSession, returned |-> <<>>,
             got |-> FALSE]

sessionUnchanged ==
  UNCHANGED <<dbVars, rankVars, optVars, configured, now, evalOutcomes>>

RegisterSessionAiBatchId(sessionId, batchId) ==
  /\ call.fn = "session"
  /\ Len(call.log) < MaxRegistrations
  /\ sessionMap' = registerSessionAiBatchId(sessionMap, sessionId, batchId)
  /\ call' = [call EXCEPT !.log = Append(@, <<sessionId, batchId>>), !.got = FALSE]
  /\ sessionUnchanged

SetSessionOptimizedPrompt(sessionId, prompt) ==
  /\ call.fn = "session"
  /\ sessionMap' = setSessionOptimizedPrompt(sessionMap, sessionId, prompt)
  /\ call' = [call EXCEPT !.got = FALSE]
  /\ sessionUnchanged

GetSessionAiBatchIds(sessionId) ==
  /\ call.fn = "session"
  /\ call' = [call EXCEPT !.asked = sessionId,
                          !.returned = getSessionAiBatchIds(sessionId),
                          !.got = TRUE]
  /\ UNCHANGED sessionMap
  /\ sessionUnchanged

NextSession ==
  \/ \E sessionId \in SessionIds \cup {NoSession}, batchId \in SessionBatchIds :
        RegisterSessionAiBatchId(sessionId, batchId)
  \/ \E sessionId \in SessionIds \cup {NoSession} :
        SetSessionOptimizedPrompt(sessionId, "optimized")
  \/ \E sessionId \in SessionIds \cup {NoSession} : GetSessionAiBatchIds(sessionId)

SpecSession == InitSession /\ [][NextSession]_vars

\* the batch ids registered under a session so far
RegisteredUnder(sessionId) ==
  {call.log[i][2] : i \in {j \in 1..Len(call.log) : call.log[j][1] = sessionId}}

\* C20: after any sequence of registerSessionAiBatchId calls,
\* getSessionAiBatchIds(s) returns exactly the distinct batch ids registered
\* under s, each once, none of another session, and the empty list when s is
\* unknown or undefined.
C20_SessionBatchIds ==
  (call.fn = "session" /\ call.got) =>
     /\ \A i, j \in 1..Len(call.returned) : call.returned[i] = call.returned[j] => i = j
     /\ call.asked # NoSession => SeqToSet(call.returned) = RegisteredUnder(call.asked)
     /\ call.asked = NoSession => call.returned = <<>>
     /\ RegisteredUnder(call.asked) = {} => call.returned = <<>>

C20_Witness ==
  /\ call.fn = "session" /\ call.got
  /\ call.log = <<<<"session-a", 1>>, <<"session-b", 2>>, <<"session-a", 1>>>>
  /\ call.asked = "session-a"
  /\ call.returned = <<1>>

(***************************************************************************)
(* Ranking runs of a session, next to session optimizations that finish    *)
(***************************************************************************)
MaxNow == 1
MaxStashes == 2
MaxSessionRuns == 2

\* Date.now() moves on
Tick ==
  /\ now < MaxNow
  /\ now' = now + 1
  /\ UNCHANGED <<dbVars, rankVars, optVars, configured, sessionMap, call, evalOutcomes>>

\* a start handler that passes its sessionId to runRankingProcess; a run
\* slot is used again once its run has ended.  call keeps the history the
\* properties speak of: the finished session optimizations so far
\* (stashes), how many there were and whether the flag was up when the run
\* in the slot was started, and how many runs started since the latest
\* stash have completed before the run in the slot.
SessionRankingStart(r, provider, sessionId) ==
  /\ call.fn = "sessionRank"
  /\ proc[r].pc \in {"idle", "done", "failed"}
  /\ call.runs < MaxSessionRuns
  /\ proc' = [proc EXCEPT ![r] = [IdleProc EXCEPT !.pc = "fetchAllLeads", !.kind = "rank",
                                     !.provider = provider, !.batchId = generateBatchId,
                                     !.sessionId = sessionId, !.returned = TRUE]]
  /\ call' = [call EXCEPT
                !.runs = @ + 1,
                !.stashesAtStart = call.stashes,
                !.pendingAtStart = hasPendingOptimization(sessionId),
                !.completedSince =
                    IF proc[r].pc = "done" /\ call.stashesAtStart = call.stashes
                    THEN @ + 1 ELSE @]
  /\ UNCHANGED <<optVars, dbVars, progressMap, configured, now, sessionMap, evalOutcomes>>

\* the end of a session optimization: the optimized prompt is stashed as
\* the session's override
StashOptimizedPrompt(sessionId, prompt) ==
  /\ call.fn = "sessionRank"
  /\ call.stashes < MaxStashes
  /\ sessionMap' = stashOptimizedPrompt(sessionMap, sessionId, prompt)
  /\ call' = [call EXCEPT !.stashes = @ + 1, !.completedSince = 0]
  /\ UNCHANGED <<dbVars, rankVars, optVars, configured, now, evalOutcomes>>

\* two leads with rows of an earlier run, a stored default prompt
InitSessionRank ==
  /\ leads \in {table \in LeadTables : Len(table) = 2}
  /\ rankings = OldRankings(leads)
  /\ prompts = {DefaultPromptRow(1)}
  /\ configured = Providers
  /\ now = 0
  /\ sessionMap = <<>>
  /\ call = [fn |-> "sessionRank", stashes |-> 0, runs |-> 0, stashesAtStart |-> 0,
             pendingAtStart |-> FALSE, completedSince |-> 0]
  /\ evalOutcomes = FitnessValues
  /\ progressMap = <<>>
  /\ proc = [r \in RankRuns |-> IdleProc]
  /\ optimizationProgressMap = <<>>
  /\ opt = [o \in OptRuns |-> IdleOpt]

\* the response that ranks every lead of the request at rank
RanksAll(leadIds, rank) ==
  [text |-> <<"{", "R", "}">>,
   items |-> [i \in 1..Len(leadIds) |->
                [leadId |-> leadIds[i], rank |-> rank, reasoning |-> "ai"]]]

NextSessionRank ==
  \/ Tick
  \/ SessionRankingStart(1, "openai", "session-a")
  \/ \E prompt \in {"optimized-1", "optimized-2"} : StashOptimizedPrompt("session-a", prompt)
  \/ FetchAllLeads(1)
  \/ FetchLatestRanksByLeadId(1)
  \/ FetchActivePromptRow(1)
  \/ clearAllRankings(1)
  \/ chat(1)
  \/ \E rank \in {1, 2, NULL} : rankLeadsBatch(1, RanksAll(currentLeadIds(1), rank))
  \/ rankLeadsBatchThrows(1)
  \/ saveRankings(1)

SpecSessionRank == InitSessionRank /\ [][NextSessionRank]_vars

\* the ranking run in the slot has completed and is the first one to
\* complete of those started after the latest stash
NextRunCompleted ==
  /\ call.fn = "sessionRank"
  /\ proc[1].pc = "done"
  /\ call.stashes >= 1
  /\ call.stashesAtStart = call.stashes
  /\ call.completedSince = 0

\* the run in the slot has stored its ranking changes against its session
StoredDeltas ==
  /\ proc[1].sessionId \in DOMAIN sessionMap
  /\ "rankingChanges" \in DOMAIN sessionMap[proc[1].sessionId]
  /\ proc[1].shouldCaptureChanges
  /\ sessionMap[proc[1].sessionId].rankingChanges = proc[1].rankingChanges

\* C21: after a session optimization has stashed an override for a session
\* with the pending flag set, the next ranking run of the session that
\* completes used the override text as its prompt, has stored its ranking
\* deltas against the session and leaves the flag cleared; a run whose
\* session had no pending flag when it was started stores no deltas.
C21_OverrideConsumed ==
  /\ NextRunCompleted =>
       /\ proc[1].systemPrompt = sessionMap["session-a"].optimizedPrompt
       /\ StoredDeltas
       /\ ~hasPendingOptimization("session-a")
  /\ (call.fn = "sessionRank" /\ proc[1].pc = "done" /\ ~call.pendingAtStart) =>
       ~proc[1].shouldCaptureChanges

\* the leads whose latest rank in rankings is not the one the run in the
\* slot found before it cleared the table
RankDiffers ==
  {id \in {leads[i].id : i \in 1..Len(leads)} :
     normalizeRank(MapGet(proc[1].previousRanks, id))
       # normalizeRank(MapGet(fetchLatestRanksByLeadId(rankings), id))}

\* the leads with an entry in the ranking changes stored for the session
ChangedLeads(sessionId) ==
  {sessionMap[sessionId].rankingChanges[i].leadId :
     i \in 1..Len(sessionMap[sessionId].rankingChanges)}

\* C25: when a run that captured changes has completed, the ranking changes
\* stored for its session have an entry for exactly the leads whose rank
\* before the run differs from the rank after it, the leads of a company
\* whose ranking call failed included.
C25_ChangesAreTheDifferences ==
  (call.fn = "sessionRank" /\ proc[1].pc = "done" /\ StoredDeltas) =>
     ChangedLeads(proc[1].sessionId) = RankDiffers

(***************************************************************************)
(* Two ranking runs in flight at once                                      *)
(***************************************************************************)
\* two leads with rows of an earlier run, a stored default prompt
InitRace ==
  /\ leads \in {table \in LeadTables : Len(table) = 2}
  /\ rankings = OldRankings(leads)
  /\ prompts = {DefaultPromptRow(1)}
  /\ configured = Providers
  /\ now = 0
  /\ sessionMap = <<>>
  /\ call = [fn |-> "race"]
  /\ evalOutcomes = FitnessValues
  /\ progressMap = <<>>
  /\ proc = [r \in RankRuns |-> IdleProc]
  /\ optimizationProgressMap = <<>>
  /\ opt = [o \in OptRuns |-> IdleOpt]

NextRace ==
  \/ Tick
  \/ \E r \in RankRuns :
       \/ RankingStart(r, "openai")
       \/ FetchAllLeads(r)
       \/ FetchActivePromptRow(r)
       \/ clearAllRankings(r)
       \/ chat(r)
       \/ \E rank \in {1, 2} : rankLeadsBatch(r, RanksAll(currentLeadIds(r), rank))
       \/ rankLeadsBatchThrows(r)
       \/ saveRankings(r)

SpecRace == InitRace /\ [][NextRace]_vars

\* both runs have completed and each has saved a row for every lead
BothCompleted ==
  /\ call.fn = "race"
  /\ \A r \in RankRuns : proc[r].pc = "done" /\ Len(proc[r].saved) = Len(leads)

\* C28: every start call returns an identifier distinct from those of all
\* runs started before, so that no two runs write to the same progress
\* entry, two starts within the same clock millisecond included.
C28_DistinctRunIds ==
  \A r1, r2 \in RankRuns :
     (call.fn = "race" /\ r1 # r2 /\ proc[r1].returned /\ proc[r2].returned) =>
        proc[r1].batchId # proc[r2].batchId

\* C24: two concurrent ranking runs race on the clear step.  When both have
\* completed, the table holds only rows the two runs inserted, at most one
\* of each run per lead, and it is the full result set of one of the runs
\* unless some lead has two rows or a row one run saved was deleted by the
\* other run's clear; the witness is such an interleaving.
C24_ClearRace ==
  BothCompleted =>
     /\ \A j \in 1..Len(rankings) : rankings[j].by \in RankRuns
     /\ \A i \in 1..Len(leads), r \in RankRuns :
          Cardinality({j \in RowsOfLead(rankings, leads[i].id) : rankings[j].by = r}) <= 1
     /\ \/ \E r \in RankRuns : rankings = proc[r].saved
        \/ \E i \in 1..Len(leads) : Cardinality(RowsOfLead(rankings, leads[i].id)) = 2
        \/ \E r \in RankRuns : \E k \in 1..Len(proc[r].saved) :
              \A j \in 1..Len(rankings) : rankings[j] # proc[r].saved[k]

\* both runs completed and a lead has two rows, one of each run
C24_Witness ==
  /\ BothCompleted
  /\ \A r \in RankRuns : rankings # proc[r].saved
  /\ \E i \in 1..Len(leads) : Cardinality(RowsOfLead(rankings, leads[i].id)) = 2

\* both runs completed and a row one of them saved is gone
C24_RowsDeleted ==
  /\ BothCompleted
  /\ \A r \in RankRuns : rankings # proc[r].saved
  /\ \E i \in 1..Len(leads) : Cardinality(RowsOfLead(rankings, leads[i].id)) = 1
  /\ \E i \in 1..Len(leads) : Cardinality(RowsOfLead(rankings, leads[i].id)) = 2

(***************************************************************************)
(* Runs whose calls all return or throw                                    *)
(***************************************************************************)
\* one ranking run over MaxLeads leads, or one optimization run of one
\* generation; the prompt store is empty or holds the default prompt
InitLive ==
  /\ \/ /\ call = [fn |-> "rankingRun"]
        /\ leads \in {table \in LeadTables : Len(table) = MaxLeads}
        /\ rankings = OldRankings(leads)
     \/ /\ call = [fn |-> "optimizationRun"]
        /\ leads = <<>>
        /\ rankings = <<>>
  /\ prompts \in {{}, {DefaultPromptRow(1)}}
  /\ configured = Providers
  /\ now = 0
  /\ sessionMap = <<>>
  /\ evalOutcomes = FitnessValues
  /\ progressMap = <<>>
  /\ proc = [r \in RankRuns |-> IdleProc]
  /\ optimizationProgressMap = <<>>
  /\ opt = [o \in OptRuns |-> IdleOpt]

NextLive ==
  \/ call.fn = "rankingRun" /\ RankingStart(1, "openai")
  \/ FetchAllLeads(1)
  \/ FetchActivePromptRow(1)
  \/ FetchLatestPromptVersion(1)
  \/ createDefaultPrompt(1)
  \/ RefetchActivePromptRow(1)
  \/ clearAllRankings(1)
  \/ chat(1)
  \/ \E rank \in {1, NULL} : rankLeadsBatch(1, RanksAll(currentLeadIds(1), rank))
  \/ rankLeadsBatchThrows(1)
  \/ saveRankings(1)
  \/ call.fn = "optimizationRun" /\ OptimizerStart(1, "openai", 1)
  \/ fetchBasePrompt(1)
  \/ \E content \in GeneratedContents : initializePopulation(1, content)
  \/ \E mutate \in BOOLEAN : OptAwait(1, mutate)
  \/ \E population \in PendingEvaluation(1, "evaluateInitial", opt[1].population, 0) :
        \E sorted \in SortOutcomes(population) : evaluateInitial(1, population, sorted)
  \/ \E mutate \in BOOLEAN, content \in GeneratedContents :
        \E parent1 \in TournamentWinners(opt[1].population),
           parent2 \in TournamentWinners(opt[1].population) :
          generateOffspring(1, parent1, parent2, mutate, content)
  \/ \E newPopulation \in PendingEvaluation(1, "evaluateGeneration",
                                           opt[1].newPopulation, EliteCount) :
        \E sorted \in SortOutcomes(newPopulation) : evaluateGeneration(1, newPopulation, sorted)
  \/ saveBestPrompt(1)

\* a run that was started takes its next step: the call it awaits returns
\* or throws
RunStep ==
  /\ proc[1].pc # "idle" \/ opt[1].pc # "idle"
  /\ NextLive

SpecLive == InitLive /\ [][NextLive]_vars /\ WF_vars(RunStep)

\* C23: the start handler has returned the run's id while the run is still
\* at its first await, and every ranking run and every optimization run
\* that was started eventually shows the status completed or error in its
\* progress entry, given that every LLM and store call returns or throws.
C23_RunsTerminate ==
  /\ [](proc[1].pc # "idle" => proc[1].returned)
  /\ proc[1].pc # "idle"
       ~> getRankingProgress(proc[1].batchId).status \in {"completed", "error"}
  /\ opt[1].pc # "idle"
       ~> getOptimizationProgress(opt[1].runId).status \in {"completed", "error"}

C23_Witness ==
  /\ call.fn = "rankingRun"
  /\ proc[1].returned /\ proc[1].pc = "done" /\ proc[1].logged = 1
  /\ getRankingProgress(proc[1].batchId).status = "completed"

(***************************************************************************)
(* A run and the leadsRouter mutations called while it is under way        *)
(***************************************************************************)
NextLeads ==
  \/ NextLive
  \/ \E rows \in CsvRows : importFromCsv(2, rows)
  \/ \E found \in BOOLEAN, rows \in CsvRows : runTestData(2, found, rows)
  \/ clearAll(2)

SpecLeads == InitLive /\ [][NextLeads]_vars

====
